---- MODULE Spec2Model ----
(***************************************************************************)
(* A model of the ibctest relayer orchestration layer: channel-creation    *)
(* options (package ibc), the Docker-backed relayer DockerRelayer (package *)
(* relayer) and the container naming of chain nodes.                       *)
(*                                                                         *)
(* Strings that the code takes apart or puts together are sequences:       *)
(* a port identifier is a sequence of one-character strings, a container   *)
(* name is the sequence of its "-"-separated tokens.  An error value is    *)
(* the sequence of its message layers, outermost first (fmt.Errorf with    *)
(* %w puts one layer in front); the nil error is the empty sequence.       *)
(***************************************************************************)
EXTENDS Integers, Sequences, FiniteSets, TLC

VARIABLES
    opts,        \* the CreateChannelOptions value under test
    vres,        \* what the last options function returned
    mgr,         \* the DockerRelayer values, one per manager slot
    volumes,     \* the runtime's volumes
    containers,  \* the runtime's containers, by id (a sequence: the id is the index)
    now,         \* the wall clock read by time.Now()
    lastOp,      \* the most recent call: its arguments, runtime calls, reports, result
    keyOk,       \* history: per manager and chain ID, the wallet of the last successful AddKey/RestoreKey
    nodes,       \* the chain node values (TendermintNode, RelayChainNode, ParachainNode)
    ic           \* the Interchain under construction: its chains and its relayers

vars == <<opts, vres, mgr, volumes, containers, now, lastOp, keyOk, nodes, ic>>

(***************************************************************************)
(* Bounds of the model.                                                    *)
(***************************************************************************)
MaxPortLen == 2
MaxTime == 2
MaxContainers == 2

(***************************************************************************)
(* Errors.                                                                 *)
(***************************************************************************)
Nil == <<>>

Wrap(msg, err) == <<msg>> \o err

ErrInvalidPort == <<"invalid port">>

ErrInvalidChannelVersion == <<"invalid channel version">>

ErrInvalidChannelOrdering == <<"invalid channel ordering">>

(***************************************************************************)
(* package ibc: Order and CreateChannelOptions.                            *)
(***************************************************************************)
Invalid == 0

Ordered == 1

Unordered == 2

\* Order is a Go int: any integer converts to it.
Orders == -1 .. 3

OrderValidateAcceptsZero(o) ==
    IF o = Ordered \/ o = Unordered \/ o = Invalid THEN Nil ELSE ErrInvalidChannelOrdering

OrderValidate(o) ==
    IF o = Ordered \/ o = Unordered THEN Nil ELSE ErrInvalidChannelOrdering

OrderString(o) ==
    CASE o = Unordered -> "unordered"
      [] o = Ordered -> "ordered"
      [] OTHER -> "invalid"

\* The characters of the model's identifiers: a letter, the separator that an
\* identifier must not contain, and white space.
PortAlphabet == {"a", "/", " "}

\* The identifier characters of the port validator: [a-zA-Z0-9._+\-#\[\]<>].
ValidIDChars == {"a", "e", "f", "n", "r", "s", "t", ".", "_", "+", "-", "#", "[", "]", "<", ">"}

TransferPort == <<"t", "r", "a", "n", "s", "f", "e", "r">>

LongPort == [i \in 1 .. 129 |-> "a"]

SeqsUpTo(S, n) == UNION {[1 .. k -> S] : k \in 0 .. n}

PortNames == SeqsUpTo(PortAlphabet, MaxPortLen) \cup {TransferPort, LongPort}

Versions == {"", "ics20-1"}

\* host.PortIdentifierValidator: not blank, no "/", 2 to 128 characters, every
\* character an identifier character.
PortIdentifierValidator(id) ==
    CASE \A i \in 1 .. Len(id) : id[i] = " " -> <<"identifier cannot be blank">>
      [] \E i \in 1 .. Len(id) : id[i] = "/" -> <<"identifier cannot contain separator">>
      [] Len(id) < 2 \/ Len(id) > 128 -> <<"identifier has invalid length">>
      [] \E i \in 1 .. Len(id) : id[i] \notin ValidIDChars -> <<"identifier has invalid characters">>
      [] OTHER -> Nil

DefaultChannelOptsOrderUnset ==
    [SourcePortName |-> TransferPort, DestPortName |-> TransferPort,
     Order |-> Invalid, Version |-> "ics20-1"]

DefaultChannelOpts ==
    [SourcePortName |-> TransferPort, DestPortName |-> TransferPort,
     Order |-> Unordered, Version |-> "ics20-1"]

ValidateVersionFirst(o) ==
    CASE o.Version = "" -> ErrInvalidChannelVersion
      [] OrderValidate(o.Order) # Nil -> ErrInvalidChannelOrdering
      [] PortIdentifierValidator(o.SourcePortName) # Nil -> ErrInvalidPort
      [] PortIdentifierValidator(o.DestPortName) # Nil -> ErrInvalidPort
      [] OTHER -> Nil

Validate(o) ==
    CASE PortIdentifierValidator(o.SourcePortName) # Nil -> ErrInvalidPort
      [] PortIdentifierValidator(o.DestPortName) # Nil -> ErrInvalidPort
      [] o.Version = "" -> ErrInvalidChannelVersion
      [] OrderValidate(o.Order) # Nil -> ErrInvalidChannelOrdering
      [] OTHER -> Nil

AllOpts ==
    [SourcePortName : PortNames, DestPortName : PortNames, Order : Orders, Version : Versions]

(***************************************************************************)
(* The participants and their inputs.                                      *)
(***************************************************************************)
Managers == {"r1", "r2"}

\* A RelayerCommander: its Name() and whether Init() returns a command.
Commanders == {[name |-> "rly", hasInit |-> TRUE], [name |-> "hermes", hasInit |-> FALSE]}

TestNames == {"T", "T/sub"}

ChainIDs == {"c1", "c2"}

KeyNames == {"k"}

PathNames == {<<"p">>, <<"q">>}

Mnemonics == {"m1", "m2"}

Addresses == {"a1", "a2"}

Wallets == [Mnemonic : Mnemonics, Address : Addresses]

NoWallet == [Mnemonic |-> "", Address |-> ""]

\* The container id a DockerRelayer holds before StartRelayer: the empty string.
NoID == 0

\* The volume name a DockerRelayer holds before the volume is created.
NoVolume == 0

MgrAbsent == [state |-> "absent", c |-> "", testName |-> "", volumeName |-> NoVolume,
              containerID |-> NoID, wallets |-> <<>>]

\* DockerRelayer.wallets: a map, modelled as the set of its (chainID, wallet) entries
\* held as a function on the chain IDs present.
HasWallet(w, chainID) == chainID \in DOMAIN w

PutWallet(w, chainID, wallet) ==
    [c \in (DOMAIN w) \cup {chainID} |-> IF c = chainID THEN wallet ELSE w[c]]

(***************************************************************************)
(* Time: time.Time values are integers, seconds from the Unix epoch.       *)
(* A timestamp string of the runtime and the layout constant are records:  *)
(* time.Parse(layout, value) succeeds when a layout is given as the layout *)
(* and a timestamp as the value.                                           *)
(***************************************************************************)
Epoch == 0

\* The runtime's timestamp of a container that never started or never finished,
\* "0001-01-01T00:00:00Z": a time before the epoch.
ZeroTime == Epoch - 1

Stamp(t) == [kind |-> "stamp", t |-> t]

RFC3339Nano == [kind |-> "layout", t |-> Epoch]

TimeParse(layout, value) ==
    IF layout.kind = "layout" /\ value.kind = "stamp"
    THEN [t |-> value.t, err |-> Nil]
    ELSE [t |-> ZeroTime, err |-> <<"parsing time">>]

Min(a, b) == IF a <= b THEN a ELSE b

\* The clock readings a call that starts at t can end at.
Later(t) == t .. Min(t + 1, MaxTime)

(***************************************************************************)
(* Names.                                                                  *)
(***************************************************************************)
\* dockerutil.SanitizeContainerName: characters a container name cannot hold
\* become "_".
SanitizeContainerName(name) == IF name = "T/sub" THEN "T_sub" ELSE name

RelayerName(r) == <<r.c, SanitizeContainerName(r.testName)>>

HomeDir(r) == <<"/var/relayer", r.c>>

BindAnonymousVolume(r) == <<NoVolume, HomeDir(r)>>

\* r.volumeName + ":" + r.HomeDir()
Bind(r) == <<r.volumeName, HomeDir(r)>>

\* The name createNodeContainer asks for: fmt.Sprintf("%s-%s", r.c.Name(), pathName).
RelayerContainerName(r, pathName) == <<r.c>> \o pathName

(***************************************************************************)
(* RelayerCommander: the command line of each operation.                   *)
(***************************************************************************)
CmdInit(homeDir) == <<"Init", homeDir>>

CmdCreateChannel(pathName, o, homeDir) == <<"CreateChannel", pathName, o, homeDir>>

CmdLinkPath(pathName, homeDir, o) == <<"LinkPath", pathName, homeDir, o>>

CmdStartRelayer(pathName, homeDir) == <<"StartRelayer", pathName, homeDir>>

CmdAddKey(chainID, keyName, homeDir) == <<"AddKey", chainID, keyName, homeDir>>

CmdRestoreKey(chainID, keyName, mnemonic, homeDir) ==
    <<"RestoreKey", chainID, keyName, mnemonic, homeDir>>

\* The commands of direct Exec calls.
ExecCmds == {<<"sh", "-c", "true">>, <<"ls">>}

(***************************************************************************)
(* The one-off job of dockerutil.Image.Run: its possible results.          *)
(***************************************************************************)
ErrRuntime == <<"docker daemon error">>

ErrCanceled == <<"context canceled">>

ErrNotFound == <<"No such container">>

ErrConflict == <<"container name already in use">>

RunOutcomes ==
    {[Stdout |-> "out", Stderr |-> "", ExitCode |-> 0, Err |-> Nil],
     [Stdout |-> "", Stderr |-> "err", ExitCode |-> 1, Err |-> Nil],
     [Stdout |-> "", Stderr |-> "err", ExitCode |-> 1, Err |-> <<"exit code 1">>],
     [Stdout |-> "", Stderr |-> "", ExitCode |-> -1, Err |-> ErrRuntime],
     [Stdout |-> "", Stderr |-> "", ExitCode |-> -1, Err |-> ErrCanceled]}

NoRes == [Stdout |-> "", Stderr |-> "", ExitCode |-> 0, Err |-> Nil]

(***************************************************************************)
(* RelayerExecReporter.TrackRelayerExec: one report.                       *)
(***************************************************************************)
TrackRelayerExec(containerName, command, stdout, stderr, exitCode, startedAt, finishedAt, err) ==
    [containerName |-> containerName, command |-> command, stdout |-> stdout,
     stderr |-> stderr, exitCode |-> exitCode, startedAt |-> startedAt,
     finishedAt |-> finishedAt, err |-> err]

\* One runtime call and how it ended.
Call(name, err) == <<name, err>>

NoOp == [m |-> "none", op |-> "none", args |-> <<>>, calls |-> <<>>, reports |-> <<>>,
         res |-> NoRes, ret |-> Nil]

Op(m, op, args, calls, reports, res, ret) ==
    [m |-> m, op |-> op, args |-> args, calls |-> calls, reports |-> reports,
     res |-> res, ret |-> ret]

(***************************************************************************)
(* The container runtime (the Docker daemon).                              *)
(***************************************************************************)
\* A runtime call either succeeds or fails with a daemon error.
CallOutcomes == {Nil, ErrRuntime}

Exists(cs, id) == id \in 1 .. Len(cs) /\ cs[id].status # "removed"

NameInUse(cs, name) == \E i \in 1 .. Len(cs) : cs[i].status # "removed" /\ cs[i].name = name

NewContainerUnlabelled(name, label, binds, cmd, creator) ==
    [name |-> name, status |-> "created", label |-> "", binds |-> binds, cmd |-> cmd,
     startedAt |-> Stamp(ZeroTime), finishedAt |-> Stamp(ZeroTime), creator |-> creator]

\* ContainerCreate: the new container, as the runtime records it.
NewContainer(name, label, binds, cmd, creator) ==
    [name |-> name, status |-> "created", label |-> label, binds |-> binds, cmd |-> cmd,
     startedAt |-> Stamp(ZeroTime), finishedAt |-> Stamp(ZeroTime), creator |-> creator]

\* How ContainerCreate under a name can end: a name in use is a conflict.
CreateOutcomes(cs, name) == IF NameInUse(cs, name) THEN {ErrConflict} ELSE CallOutcomes

\* How a call on container id can end: a container that does not exist is not found.
IdOutcomes(cs, id) == IF Exists(cs, id) THEN CallOutcomes ELSE {ErrNotFound}

Started(cs, id, t) == [cs EXCEPT ![id].status = "running", ![id].startedAt = Stamp(t)]

\* ContainerStop ends a running container; on a created or exited one it changes nothing.
Stopped(cs, id, t) ==
    IF cs[id].status = "running"
    THEN [cs EXCEPT ![id].status = "exited", ![id].finishedAt = Stamp(t)]
    ELSE cs

RemovedKeepsContainer(cs, id) == cs

\* ContainerRemove: the runtime forgets the container; its id is never given again.
Removed(cs, id) ==
    [cs EXCEPT ![id] = [name |-> <<>>, status |-> "removed", label |-> "", binds |-> <<>>,
                        cmd |-> <<>>, startedAt |-> Stamp(ZeroTime),
                        finishedAt |-> Stamp(ZeroTime), creator |-> cs[id].creator]]

(***************************************************************************)
(* DockerRelayer.Exec: one one-off job and, deferred, one report.          *)
(* t0 and t1 are the clock when the call starts and when it returns.       *)
(***************************************************************************)
ExecNoReportOnError(r, cmd, out, t0, t1) ==
    [res |-> out, opts |-> [Binds |-> Bind(r)],
     calls |-> <<Call("job.Run", out.Err)>>,
     reports |-> IF out.Err # Nil THEN <<>>
                 ELSE <<TrackRelayerExec(RelayerName(r), cmd, out.Stdout, out.Stderr,
                                         out.ExitCode, t0, t1, out.Err)>>]

ExecRun(r, cmd, out, t0, t1) ==
    [res |-> out, opts |-> [Binds |-> Bind(r)],
     calls |-> <<Call("job.Run", out.Err)>>,
     reports |-> <<TrackRelayerExec(RelayerName(r), cmd, out.Stdout, out.Stderr,
                                    out.ExitCode, t0, t1, out.Err)>>]

\* A manager is driven by one caller at a time: a call starts when the previous
\* one has returned.
Idle == lastOp.op = "none"

ReadyDespiteFailure(m) == Idle /\ mgr[m].state \in {"ready", "failed"}

\* The methods are called on the *DockerRelayer that NewDockerRelayer returned;
\* when it fails it returns nil, and there is nothing to call them on.
Ready(m) == Idle /\ mgr[m].state = "ready"

Exec(m) ==
    /\ Ready(m)
    /\ \E cmd \in ExecCmds, out \in RunOutcomes, t1 \in Later(now) :
         LET e == ExecRun(mgr[m], cmd, out, now, t1) IN
           /\ lastOp' = Op(m, "Exec", <<cmd, e.opts.Binds>>, e.calls, e.reports, e.res, e.res.Err)
           /\ now' = t1
    /\ UNCHANGED <<opts, vres, mgr, volumes, containers, keyOk, nodes, ic>>

\* The options CreateChannel and LinkPath are called with.
ChannelOpts ==
    {DefaultChannelOpts,
     [DefaultChannelOpts EXCEPT !.Order = Invalid],
     [DefaultChannelOpts EXCEPT !.Version = ""],
     [DefaultChannelOpts EXCEPT !.SourcePortName = <<"a", "/">>]}

DispatchRetFromExitCode(res) ==
    CASE res.Err # Nil -> res.Err
      [] res.ExitCode # 0 \/ res.Stderr # "" -> <<"command failed">>
      [] OTHER -> Nil

\* What an operation that only dispatches a command returns: res.Err.
DispatchRet(res) == res.Err

CreateChannelRun(r, pathName, o, out, t0, t1) ==
    ExecRun(r, CmdCreateChannel(pathName, o, HomeDir(r)), out, t0, t1)

CreateChannel(m) ==
    /\ Ready(m)
    /\ \E pathName \in PathNames, o \in ChannelOpts, out \in RunOutcomes, t1 \in Later(now) :
         LET e == CreateChannelRun(mgr[m], pathName, o, out, now, t1) IN
           /\ lastOp' = Op(m, "CreateChannel", <<pathName, o>>, e.calls, e.reports, e.res,
                           DispatchRet(e.res))
           /\ now' = t1
    /\ UNCHANGED <<opts, vres, mgr, volumes, containers, keyOk, nodes, ic>>

LinkPathRun(r, pathName, o, out, t0, t1) ==
    ExecRun(r, CmdLinkPath(pathName, HomeDir(r), o), out, t0, t1)

LinkPath(m) ==
    /\ Ready(m)
    /\ \E pathName \in PathNames, o \in ChannelOpts, out \in RunOutcomes, t1 \in Later(now) :
         LET e == LinkPathRun(mgr[m], pathName, o, out, now, t1) IN
           /\ lastOp' = Op(m, "LinkPath", <<pathName, o>>, e.calls, e.reports, e.res,
                           DispatchRet(e.res))
           /\ now' = t1
    /\ UNCHANGED <<opts, vres, mgr, volumes, containers, keyOk, nodes, ic>>

(***************************************************************************)
(* NewDockerRelayer: image pull, volume create, volume owner, init command.*)
(* pullErr, volErr and ownErr are how the runtime ends each call that is   *)
(* made, initOut is the result of the init job.                            *)
(***************************************************************************)
NewVolumeTwice(vs, label, creator) ==
    vs \o <<[name |-> Len(vs) + 1, label |-> label, creator |-> creator],
            [name |-> Len(vs) + 2, label |-> label, creator |-> creator]>>

\* VolumeCreate: the runtime names the new volume.
NewVolume(vs, label, creator) == Append(vs, [name |-> Len(vs) + 1, label |-> label, creator |-> creator])

VolumesCleanedAfterFailure(vs, made) == vs

\* A construction that fails after VolumeCreate returns at once: the volume stays.
VolumesAfterFailure(vs, made) == made

NewDockerRelayerRun(m, c, testName, pull, vs, pullErr, volErr, ownErr, initOut) ==
    LET pulls  == IF pull THEN <<Call("ImagePull", pullErr)>> ELSE <<>>
        failed == [MgrAbsent EXCEPT !.state = "failed"]
        made   == NewVolume(vs, testName, m)
        r      == [state |-> "ready", c |-> c.name, testName |-> testName,
                   volumeName |-> Len(vs) + 1, containerID |-> NoID, wallets |-> <<>>]
        init   == ExecRun(r, CmdInit(HomeDir(r)), initOut, Epoch, Epoch)
    IN  CASE pull /\ pullErr # Nil ->
               [mgr |-> failed, volumes |-> vs, calls |-> pulls,
                ret |-> Wrap("pulling container image", pullErr)]
          [] volErr # Nil ->
               [mgr |-> failed, volumes |-> vs,
                calls |-> pulls \o <<Call("VolumeCreate", volErr)>>,
                ret |-> Wrap("creating volume", volErr)]
          [] ownErr # Nil ->
               [mgr |-> failed, volumes |-> VolumesAfterFailure(vs, made),
                calls |-> pulls \o <<Call("VolumeCreate", Nil), Call("SetVolumeOwner", ownErr)>>,
                ret |-> Wrap("set volume owner", ownErr)]
          [] c.hasInit /\ init.res.Err # Nil ->
               [mgr |-> failed, volumes |-> VolumesAfterFailure(vs, made),
                calls |-> pulls \o <<Call("VolumeCreate", Nil), Call("SetVolumeOwner", Nil)>> \o init.calls,
                ret |-> init.res.Err]
          [] OTHER ->
               [mgr |-> r, volumes |-> made,
                calls |-> pulls \o <<Call("VolumeCreate", Nil), Call("SetVolumeOwner", Nil)>>
                          \o (IF c.hasInit THEN init.calls ELSE <<>>),
                ret |-> Nil]

\* The context each runtime call of NewDockerRelayer is made with: the image pull
\* with context.TODO(), every other call with the ctx of the caller.
CallContext(name) == IF name = "ImagePull" THEN "TODO" ELSE "ctx"

\* How a call can end; one made with a context that is done ends with its error.
CallOutcomesUnder(name, done) ==
    IF done /\ CallContext(name) = "ctx" THEN {ErrCanceled} ELSE CallOutcomes

RunOutcomesUnder(done) == IF done THEN {o \in RunOutcomes : o.Err = ErrCanceled} ELSE RunOutcomes

\* The options a caller passes: none, or RelayerOptionImagePull with either value.
RelayerOptions == {<<>>, <<[Pull |-> TRUE]>>, <<[Pull |-> FALSE]>>}

PullImageOffByDefault(options) == IF options = <<>> THEN FALSE ELSE options[Len(options)].Pull

\* r.pullImage: true by default, the last RelayerOptionImagePull overrides it.
PullImage(options) == IF options = <<>> THEN TRUE ELSE options[Len(options)].Pull

\* done: the ctx the caller passes is cancelled already.
NewDockerRelayer(m) ==
    /\ Idle
    /\ mgr[m].state = "absent"
    /\ \E c \in Commanders, testName \in TestNames, options \in RelayerOptions, done \in BOOLEAN :
       \E pull \in {PullImage(options)}, pullErr \in CallOutcomesUnder("ImagePull", done),
          volErr \in CallOutcomesUnder("VolumeCreate", done),
          ownErr \in CallOutcomesUnder("SetVolumeOwner", done),
          initOut \in RunOutcomesUnder(done), t1 \in Later(now) :
         LET n == NewDockerRelayerRun(m, c, testName, pull, volumes, pullErr, volErr, ownErr, initOut) IN
           /\ mgr' = [mgr EXCEPT ![m] = n.mgr]
           /\ volumes' = n.volumes
           \* The init command is run with the no-op reporter: nothing is reported.
           /\ lastOp' = Op(m, "NewDockerRelayer", <<c.name, testName, done, options>>, n.calls, <<>>,
                           NoRes, n.ret)
           /\ now' = t1
    /\ UNCHANGED <<opts, vres, containers, keyOk, nodes, ic>>

(***************************************************************************)
(* StartRelayer: createNodeContainer.                                      *)
(***************************************************************************)
StartRelayerHoldsOnlyStarted(m, r, pathName, cs, createErr, startErr, t1) ==
    LET name == RelayerContainerName(r, pathName)
        id   == Len(cs) + 1
        made == Append(cs, NewContainer(name, r.testName, Bind(r),
                                        CmdStartRelayer(pathName, HomeDir(r)), m))
    IN  IF createErr # Nil
        THEN [mgr |-> r, containers |-> cs, ret |-> createErr,
              calls |-> <<Call("ContainerCreate", createErr)>>]
        ELSE [mgr |-> IF startErr = Nil THEN [r EXCEPT !.containerID = id] ELSE r,
              containers |-> IF startErr = Nil THEN Started(made, id, t1) ELSE made,
              ret |-> startErr,
              calls |-> <<Call("ContainerCreate", Nil), Call("StartContainer", startErr)>>]

StartRelayerRetriesStart(m, r, pathName, cs, createErr, startErr, t1) ==
    LET name == RelayerContainerName(r, pathName)
        id   == Len(cs) + 1
        made == Append(cs, NewContainer(name, r.testName, Bind(r),
                                        CmdStartRelayer(pathName, HomeDir(r)), m))
    IN  IF createErr # Nil
        THEN [mgr |-> r, containers |-> cs, ret |-> createErr,
              calls |-> <<Call("ContainerCreate", createErr)>>]
        ELSE [mgr |-> [r EXCEPT !.containerID = id],
              containers |-> IF startErr = Nil THEN Started(made, id, t1) ELSE made,
              ret |-> startErr,
              calls |-> <<Call("ContainerCreate", Nil), Call("StartContainer", startErr)>>
                        \o (IF startErr # Nil THEN <<Call("StartContainer", startErr)>> ELSE <<>>)]

StartRelayerRun(m, r, pathName, cs, createErr, startErr, t1) ==
    LET name == RelayerContainerName(r, pathName)
        id   == Len(cs) + 1
        made == Append(cs, NewContainer(name, r.testName, Bind(r),
                                        CmdStartRelayer(pathName, HomeDir(r)), m))
    IN  IF createErr # Nil
        THEN [mgr |-> r, containers |-> cs, ret |-> createErr,
              calls |-> <<Call("ContainerCreate", createErr)>>]
        ELSE [mgr |-> [r EXCEPT !.containerID = id],
              containers |-> IF startErr = Nil THEN Started(made, id, t1) ELSE made,
              ret |-> startErr,
              calls |-> <<Call("ContainerCreate", Nil), Call("StartContainer", startErr)>>]

StartRelayer(m) ==
    /\ Ready(m)
    /\ \E pathName \in PathNames, startErr \in CallOutcomes, t1 \in Later(now) :
       \E createErr \in CreateOutcomes(containers, RelayerContainerName(mgr[m], pathName)) :
         /\ createErr = Nil => Len(containers) < MaxContainers
         /\ LET s == StartRelayerRun(m, mgr[m], pathName, containers, createErr, startErr, t1) IN
              /\ mgr' = [mgr EXCEPT ![m] = s.mgr]
              /\ containers' = s.containers
              /\ lastOp' = Op(m, "StartRelayer", <<pathName>>, s.calls, <<>>, NoRes, s.ret)
              /\ now' = t1
    /\ UNCHANGED <<opts, vres, volumes, keyOk, nodes, ic>>

(***************************************************************************)
(* StopRelayer: stop, logs, demultiplex, inspect, report, remove.          *)
(***************************************************************************)
\* The timestamps of the synthesized report, from the inspected container c at
\* clock t.  The code passes the container's timestamp as the layout and the
\* layout constant as the value.
StopTimesFallbacksSwapped(c, t) ==
    LET s == TimeParse(c.startedAt, RFC3339Nano)
        f == TimeParse(c.finishedAt, RFC3339Nano)
    IN  [startedAt  |-> IF s.err # Nil THEN t ELSE s.t,
         finishedAt |-> IF f.err # Nil THEN Epoch ELSE f.t]

StopTimes(c, t) ==
    LET s == TimeParse(c.startedAt, RFC3339Nano)
        f == TimeParse(c.finishedAt, RFC3339Nano)
    IN  [startedAt  |-> IF s.err # Nil THEN Epoch ELSE s.t,
         finishedAt |-> IF f.err # Nil THEN t ELSE f.t]

\* The exit codes the runtime records for a stopped container.
ExitCodes == {0, 137}

StopReport(c, exitCode, t) ==
    TrackRelayerExec(<<"/">> \o c.name, Tail(c.cmd), "log-out", "log-err", exitCode,
                     StopTimes(c, t).startedAt, StopTimes(c, t).finishedAt, Nil)

RemoveThenReport(report, remove) == remove \o report

\* The report is handed to the reporter, then the removal is asked for.
ReportThenRemove(report, remove) == report \o remove

StopRelayerRun(r, cs, stopErr, logsErr, demuxErr, inspErr, rmErr, exitCode, t1) ==
    LET id      == r.containerID
        stopped == Stopped(cs, id, t1)
        report  == StopReport(stopped[id], exitCode, t1)
    IN  CASE stopErr # Nil ->
               [containers |-> cs, reports |-> <<>>, ret |-> stopErr,
                calls |-> <<Call("ContainerStop", stopErr)>>]
          [] logsErr # Nil ->
               [containers |-> stopped, reports |-> <<>>,
                ret |-> Wrap("StopRelayer: retrieving ContainerLogs", logsErr),
                calls |-> <<Call("ContainerStop", Nil), Call("ContainerLogs", logsErr)>>]
          [] demuxErr # Nil ->
               [containers |-> stopped, reports |-> <<>>,
                ret |-> Wrap("StopRelayer: demuxing logs", demuxErr),
                calls |-> <<Call("ContainerStop", Nil), Call("ContainerLogs", Nil),
                            Call("StdCopy", demuxErr)>>]
          [] inspErr # Nil ->
               [containers |-> stopped, reports |-> <<>>,
                ret |-> Wrap("StopRelayer: inspecting container", inspErr),
                calls |-> <<Call("ContainerStop", Nil), Call("ContainerLogs", Nil),
                            Call("StdCopy", Nil), Call("ContainerInspect", inspErr)>>]
          [] OTHER ->
               [containers |-> IF rmErr = Nil THEN Removed(stopped, id) ELSE stopped,
                reports |-> <<report>>, ret |-> rmErr,
                calls |-> <<Call("ContainerStop", Nil), Call("ContainerLogs", Nil),
                            Call("StdCopy", Nil), Call("ContainerInspect", Nil)>>
                          \o ReportThenRemove(<<Call("TrackRelayerExec", Nil)>>,
                                              <<Call("ContainerRemove", rmErr)>>)]

StopRelayer(m) ==
    /\ Ready(m)
    /\ \E stopErr \in IdOutcomes(containers, mgr[m].containerID),
          logsErr \in CallOutcomes, demuxErr \in CallOutcomes, inspErr \in CallOutcomes,
          rmErr \in CallOutcomes, exitCode \in ExitCodes, t1 \in Later(now) :
         \* A call that is not reached has no outcome: it is listed as Nil.
         /\ stopErr # Nil => logsErr = Nil
         /\ (stopErr # Nil \/ logsErr # Nil) => demuxErr = Nil
         /\ (stopErr # Nil \/ logsErr # Nil \/ demuxErr # Nil) => inspErr = Nil
         /\ (stopErr # Nil \/ logsErr # Nil \/ demuxErr # Nil \/ inspErr # Nil)
               => (rmErr = Nil /\ exitCode = 0)
         /\ LET s == StopRelayerRun(mgr[m], containers, stopErr, logsErr, demuxErr, inspErr,
                                 rmErr, exitCode, t1) IN
              /\ containers' = s.containers
              /\ lastOp' = Op(m, "StopRelayer", <<mgr[m].containerID>>, s.calls, s.reports,
                              NoRes, s.ret)
              /\ now' = t1
    /\ UNCHANGED <<opts, vres, mgr, volumes, keyOk, nodes, ic>>

(***************************************************************************)
(* Interchain: the chains and the relayers of a test, added one by one.    *)
(* chains and relayers are maps from the participant to its name.  A call  *)
(* that panics returns the error it panics with.                           *)
(***************************************************************************)
\* NewInterchain()
NewInterchain == [chains |-> <<>>, relayers |-> <<>>]

NilParticipant == "nil"

\* The chains a test can hold, with the Name and the ChainID of their Config().
ChainConfigs ==
    [g0 |-> [Name |-> "g", ChainID |-> "cosmoshub-0"],
     g1 |-> [Name |-> "g", ChainID |-> "cosmoshub-1"],
     g2 |-> [Name |-> "g2", ChainID |-> "cosmoshub-0"],
     g3 |-> [Name |-> "g2", ChainID |-> "cosmoshub-1"],
     g4 |-> [Name |-> "g", ChainID |-> "cosmoshub-0"]]

Chains == DOMAIN ChainConfigs

\* The relayers a test can hold, and the names it can give them.
Relayers == {"x1", "x2", "x3"}

RelayerNames == {"r", "r2"}

Put(map, k, v) == [x \in (DOMAIN map) \cup {k} |-> IF x = k THEN v ELSE map[x]]

\* What AddChain can panic with: the chain is nil; or, for a chain c the Interchain
\* holds, it is the chain itself, or else has its name, or has its chain ID.
AddChainPanics(i, chain) ==
    IF chain = NilParticipant THEN {<<"cannot add nil chain">>}
    ELSE UNION {IF c = chain THEN {<<"chain", c, "was already added">>}
                ELSE (IF ChainConfigs[c].Name = ChainConfigs[chain].Name
                      THEN {<<"a chain with name", ChainConfigs[chain].Name, "already exists">>}
                      ELSE {})
                     \cup
                     (IF ChainConfigs[c].ChainID = ChainConfigs[chain].ChainID
                      THEN {<<"a chain with ID", ChainConfigs[chain].ChainID, "already exists">>}
                      ELSE {})
                : c \in DOMAIN i.chains}

AddChainAddsThenPanics(i, chain, panic) ==
    IF chain = NilParticipant THEN [ic |-> i, ret |-> panic]
    ELSE [ic |-> [i EXCEPT !.chains = Put(i.chains, chain, ChainConfigs[chain].Name)],
          ret |-> panic]

\* AddChain: panic is the panic chosen among AddChainPanics, Nil when there is none.
AddChainRun(i, chain, panic) ==
    IF panic # Nil THEN [ic |-> i, ret |-> panic]
    ELSE [ic |-> [i EXCEPT !.chains = Put(i.chains, chain, ChainConfigs[chain].Name)], ret |-> Nil]

AddChain ==
    /\ Idle
    /\ \E chain \in Chains \cup {NilParticipant} :
       \E panic \in IF AddChainPanics(ic, chain) = {} THEN {Nil} ELSE AddChainPanics(ic, chain) :
         LET a == AddChainRun(ic, chain, panic) IN
           /\ ic' = a.ic
           /\ lastOp' = Op("ic", "AddChain", <<chain, ic>>, <<>>, <<>>, NoRes, a.ret)
    /\ UNCHANGED <<opts, vres, mgr, volumes, containers, now, keyOk, nodes>>

\* What AddRelayer can panic with: the relayer is nil; or, for a relayer r the
\* Interchain holds, it is the relayer itself, or else has the name.
AddRelayerPanics(i, relayer, name) ==
    IF relayer = NilParticipant THEN {<<"cannot add nil relayer">>}
    ELSE UNION {IF r = relayer THEN {<<"relayer", r, "was already added">>}
                ELSE IF i.relayers[r] = name
                THEN {<<"a relayer with name", name, "already exists">>}
                ELSE {}
                : r \in DOMAIN i.relayers}

AddRelayerIgnoresNames(i, relayer, name, panic) ==
    IF panic # Nil /\ panic[1] # "a relayer with name" THEN [ic |-> i, ret |-> panic]
    ELSE [ic |-> [i EXCEPT !.relayers = Put(i.relayers, relayer, name)], ret |-> Nil]

AddRelayerRun(i, relayer, name, panic) ==
    IF panic # Nil THEN [ic |-> i, ret |-> panic]
    ELSE [ic |-> [i EXCEPT !.relayers = Put(i.relayers, relayer, name)], ret |-> Nil]

AddRelayer ==
    /\ Idle
    /\ \E relayer \in Relayers \cup {NilParticipant}, name \in RelayerNames :
       \E panic \in IF AddRelayerPanics(ic, relayer, name) = {} THEN {Nil}
                    ELSE AddRelayerPanics(ic, relayer, name) :
         LET a == AddRelayerRun(ic, relayer, name, panic) IN
           /\ ic' = a.ic
           /\ lastOp' = Op("ic", "AddRelayer", <<relayer, name, ic>>, <<>>, <<>>, NoRes, a.ret)
    /\ UNCHANGED <<opts, vres, mgr, volumes, containers, now, keyOk, nodes>>

\* Time passes between calls.
Tick ==
    /\ Idle
    /\ now < MaxTime
    /\ now' = now + 1
    /\ UNCHANGED <<opts, vres, mgr, volumes, containers, lastOp, keyOk, nodes, ic>>

\* The caller takes the result of the call; the next call can start.
Return ==
    /\ ~Idle
    /\ lastOp' = NoOp
    /\ UNCHANGED <<opts, vres, mgr, volumes, containers, now, keyOk, nodes, ic>>

(***************************************************************************)
(* The relayer specification: managers are constructed, then driven.       *)
(***************************************************************************)
OptsIdle == opts = DefaultChannelOpts /\ vres = [fn |-> "none", err |-> Nil]

\* Before any manager of ms is constructed.
RelayerIdle(ms) ==
    /\ mgr = [m \in ms |-> MgrAbsent]
    /\ volumes = <<>>
    /\ containers = <<>>
    /\ now = Epoch + 1
    /\ lastOp = NoOp
    /\ keyOk = [m \in ms |-> <<>>]
    /\ nodes = <<>> /\ ic = NewInterchain

Init == OptsIdle /\ RelayerIdle({"r1"})

Next ==
    \/ \E m \in DOMAIN mgr : NewDockerRelayer(m)
    \/ \E m \in DOMAIN mgr : Exec(m)
    \/ \E m \in DOMAIN mgr : CreateChannel(m)
    \/ \E m \in DOMAIN mgr : LinkPath(m)
    \/ \E m \in DOMAIN mgr : StartRelayer(m)
    \/ \E m \in DOMAIN mgr : StopRelayer(m)
    \/ Tick
    \/ Return

Spec == Init /\ [][Next]_vars

(***************************************************************************)
(* AddKey, RestoreKey, GetWallet.                                          *)
(***************************************************************************)
\* What ParseAddKeyOutput can make of the output of a job that ran.
ParseAddKeyOutcomes ==
    {[wallet |-> w, err |-> Nil] : w \in Wallets}
        \cup {[wallet |-> NoWallet, err |-> <<"failed to parse key output">>]}

AddKeyStoresBeforeParseCheck(r, chainID, keyName, out, parsed, t0, t1) ==
    LET e == ExecRun(r, CmdAddKey(chainID, keyName, HomeDir(r)), out, t0, t1) IN
      IF e.res.Err # Nil
      THEN [mgr |-> r, wallet |-> NoWallet, ret |-> e.res.Err, exec |-> e, parse |-> <<>>]
      ELSE [mgr |-> [r EXCEPT !.wallets = PutWallet(r.wallets, chainID, parsed.wallet)],
            wallet |-> IF parsed.err # Nil THEN NoWallet ELSE parsed.wallet,
            ret |-> parsed.err, exec |-> e,
            parse |-> <<Call("ParseAddKeyOutput", parsed.err)>>]

AddKeyRun(r, chainID, keyName, out, parsed, t0, t1) ==
    LET e == ExecRun(r, CmdAddKey(chainID, keyName, HomeDir(r)), out, t0, t1) IN
      CASE e.res.Err # Nil ->
             [mgr |-> r, wallet |-> NoWallet, ret |-> e.res.Err, exec |-> e, parse |-> <<>>]
        [] parsed.err # Nil ->
             [mgr |-> r, wallet |-> NoWallet, ret |-> parsed.err, exec |-> e,
              parse |-> <<Call("ParseAddKeyOutput", parsed.err)>>]
        [] OTHER ->
             [mgr |-> [r EXCEPT !.wallets = PutWallet(r.wallets, chainID, parsed.wallet)],
              wallet |-> parsed.wallet, ret |-> Nil, exec |-> e,
              parse |-> <<Call("ParseAddKeyOutput", Nil)>>]

AddKey(m) ==
    /\ Ready(m)
    /\ \E chainID \in ChainIDs, keyName \in KeyNames, out \in RunOutcomes,
          parsed \in ParseAddKeyOutcomes, t1 \in Later(now) :
         LET a == AddKeyRun(mgr[m], chainID, keyName, out, parsed, now, t1) IN
           /\ mgr' = [mgr EXCEPT ![m] = a.mgr]
           /\ lastOp' = Op(m, "AddKey", <<chainID, a.wallet>>, a.exec.calls \o a.parse,
                           a.exec.reports, a.exec.res, a.ret)
           /\ keyOk' = IF a.ret = Nil
                       THEN [keyOk EXCEPT ![m] = PutWallet(keyOk[m], chainID, a.wallet)]
                       ELSE keyOk
           /\ now' = t1
    /\ UNCHANGED <<opts, vres, volumes, containers, nodes, ic>>

RestoreKeyStoresDespiteError(r, chainID, keyName, mnemonic, out, address, t0, t1) ==
    LET e == ExecRun(r, CmdRestoreKey(chainID, keyName, mnemonic, HomeDir(r)), out, t0, t1) IN
      [mgr |-> [r EXCEPT !.wallets =
                  PutWallet(r.wallets, chainID, [Mnemonic |-> mnemonic, Address |-> address])],
       ret |-> e.res.Err, exec |-> e]

RestoreKeyRun(r, chainID, keyName, mnemonic, out, address, t0, t1) ==
    LET e == ExecRun(r, CmdRestoreKey(chainID, keyName, mnemonic, HomeDir(r)), out, t0, t1) IN
      IF e.res.Err # Nil
      THEN [mgr |-> r, ret |-> e.res.Err, exec |-> e]
      ELSE [mgr |-> [r EXCEPT !.wallets =
                        PutWallet(r.wallets, chainID, [Mnemonic |-> mnemonic, Address |-> address])],
            ret |-> Nil, exec |-> e]

RestoreKeySharedWallets(m) ==
    /\ Ready(m)
    /\ \E chainID \in ChainIDs, keyName \in KeyNames, mnemonic \in Mnemonics,
          out \in RunOutcomes, address \in Addresses, t1 \in Later(now) :
         LET a == RestoreKeyRun(mgr[m], chainID, keyName, mnemonic, out, address, now, t1) IN
           /\ mgr' = [x \in DOMAIN mgr |->
                        IF x = m THEN a.mgr ELSE [mgr[x] EXCEPT !.wallets = a.mgr.wallets]]
           /\ lastOp' = Op(m, "RestoreKey", <<chainID, mnemonic, address>>, a.exec.calls, a.exec.reports,
                           a.exec.res, a.ret)
           /\ keyOk' = IF a.ret = Nil
                       THEN [keyOk EXCEPT ![m] = PutWallet(keyOk[m], chainID,
                                                 [Mnemonic |-> mnemonic, Address |-> address])]
                       ELSE keyOk
           /\ now' = t1
    /\ UNCHANGED <<opts, vres, volumes, containers, nodes, ic>>

RestoreKey(m) ==
    /\ Ready(m)
    /\ \E chainID \in ChainIDs, keyName \in KeyNames, mnemonic \in Mnemonics,
          out \in RunOutcomes, address \in Addresses, t1 \in Later(now) :
         LET a == RestoreKeyRun(mgr[m], chainID, keyName, mnemonic, out, address, now, t1) IN
           /\ mgr' = [mgr EXCEPT ![m] = a.mgr]
           /\ lastOp' = Op(m, "RestoreKey", <<chainID, mnemonic, address>>, a.exec.calls, a.exec.reports,
                           a.exec.res, a.ret)
           /\ keyOk' = IF a.ret = Nil
                       THEN [keyOk EXCEPT ![m] = PutWallet(keyOk[m], chainID,
                                                 [Mnemonic |-> mnemonic, Address |-> address])]
                       ELSE keyOk
           /\ now' = t1
    /\ UNCHANGED <<opts, vres, volumes, containers, nodes, ic>>

\* wallet, ok := r.wallets[chainID]: the zero wallet and false for a missing key.
GetWalletRun(r, chainID) ==
    IF HasWallet(r.wallets, chainID)
    THEN [wallet |-> r.wallets[chainID], ok |-> TRUE]
    ELSE [wallet |-> NoWallet, ok |-> FALSE]

GetWallet(m) ==
    /\ Ready(m)
    /\ \E chainID \in ChainIDs :
         LET g == GetWalletRun(mgr[m], chainID) IN
           lastOp' = Op(m, "GetWallet", <<chainID, g.wallet, g.ok>>, <<>>, <<>>, NoRes, Nil)
    /\ UNCHANGED <<opts, vres, mgr, volumes, containers, now, keyOk, nodes, ic>>

(***************************************************************************)
(* TendermintNode: the name and the container of a chain node.             *)
(***************************************************************************)
\* fmt.Sprintf("node-%d-%s-%s", Index, ChainID, SanitizeContainerName(TestName))
TendermintNodeName(n) ==
    <<"node", ToString(n.Index), n.ChainID, SanitizeContainerName(n.TestName)>>

TnCreateNodeContainerRun(k, n, cs, createErr) ==
    LET made == Append(cs, NewContainer(TendermintNodeName(n), n.TestName, <<n.VolumeName>>,
                                        <<"start">>, k))
    IN  IF createErr # Nil
        THEN [node |-> n, containers |-> cs, ret |-> createErr]
        ELSE [node |-> [n EXCEPT !.containerID = Len(cs) + 1], containers |-> made, ret |-> Nil]

TnCreateNodeContainer(k) ==
    /\ Idle
    /\ \E createErr \in CreateOutcomes(containers, TendermintNodeName(nodes[k])) :
         /\ createErr = Nil => Len(containers) < MaxContainers
         /\ LET c == TnCreateNodeContainerRun(k, nodes[k], containers, createErr) IN
              /\ nodes' = [nodes EXCEPT ![k] = c.node]
              /\ containers' = c.containers
              /\ lastOp' = Op(k, "CreateNodeContainer", <<>>, <<Call("ContainerCreate", createErr)>>,
                              <<>>, NoRes, c.ret)
    /\ UNCHANGED <<opts, vres, mgr, volumes, now, keyOk, ic>>

(***************************************************************************)
(* The keys specification: one constructed relayer, its keys and wallets.  *)
(***************************************************************************)
\* The result of a job that ran and exited with status 0.
RunOk == [Stdout |-> "out", Stderr |-> "", ExitCode |-> 0, Err |-> Nil]

\* The managers of ms constructed one after the other, each with a commander of cs
\* (a function on ms), all calls having succeeded.
RECURSIVE Constructed(_, _)
Constructed(ms, cs) ==
    IF ms = {} THEN [mgr |-> <<>>, volumes |-> <<>>]
    ELSE LET m    == CHOOSE x \in ms : TRUE
             rest == Constructed(ms \ {m}, cs)
             n    == NewDockerRelayerRun(m, cs[m], "T", TRUE, rest.volumes, Nil, Nil, Nil, RunOk)
         IN  [mgr |-> [x \in (DOMAIN rest.mgr) \cup {m} |-> IF x = m THEN n.mgr ELSE rest.mgr[x]],
              volumes |-> n.volumes]

RelayersReady(ms) ==
    \E cs \in [ms -> Commanders] :
        /\ mgr = Constructed(ms, cs).mgr
        /\ volumes = Constructed(ms, cs).volumes
        /\ containers = <<>>
        /\ now = Epoch + 1
        /\ lastOp = NoOp
        /\ keyOk = [m \in ms |-> <<>>]

InitKeys == OptsIdle /\ RelayersReady({"r1"}) /\ nodes = <<>> /\ ic = NewInterchain

NextKeys ==
    \/ \E m \in DOMAIN mgr : AddKey(m)
    \/ \E m \in DOMAIN mgr : RestoreKey(m)
    \/ \E m \in DOMAIN mgr : GetWallet(m)
    \/ \E m \in DOMAIN mgr : Exec(m)
    \/ Return

SpecKeys == InitKeys /\ [][NextKeys]_vars

(***************************************************************************)
(* The participants specification: two constructed relayers and two chain  *)
(* nodes of one test run, on one runtime.                                  *)
(***************************************************************************)
ChainNodes ==
    [n \in {"n1", "n2"} |->
        [Index |-> 0, ChainID |-> IF n = "n1" THEN "c1" ELSE "c2", TestName |-> "T",
         VolumeName |-> n, containerID |-> NoID]]

InitPair == OptsIdle /\ RelayersReady(Managers) /\ nodes = ChainNodes /\ ic = NewInterchain

NextPair ==
    \/ \E m \in DOMAIN mgr : StartRelayer(m)
    \/ \E m \in DOMAIN mgr : StopRelayer(m)
    \/ \E k \in DOMAIN nodes : TnCreateNodeContainer(k)
    \/ Return

SpecPair == InitPair /\ [][NextPair]_vars

(***************************************************************************)
(* The operations that dispatch one command through Exec: six that return  *)
(* res.Err, and GetChannels and GetConnections, which parse the output.    *)
(***************************************************************************)
ChannelIDs == {"channel-0"}

CmdCreateClients(pathName, homeDir) == <<"CreateClients", pathName, homeDir>>

CmdCreateConnections(pathName, homeDir) == <<"CreateConnections", pathName, homeDir>>

CmdFlushAcknowledgements(pathName, channelID, homeDir) ==
    <<"FlushAcknowledgements", pathName, channelID, homeDir>>

CmdFlushPackets(pathName, channelID, homeDir) == <<"FlushPackets", pathName, channelID, homeDir>>

CmdGeneratePath(srcChainID, dstChainID, pathName, homeDir) ==
    <<"GeneratePath", srcChainID, dstChainID, pathName, homeDir>>

CmdUpdateClients(pathName, homeDir) == <<"UpdateClients", pathName, homeDir>>

CmdGetChannels(chainID, homeDir) == <<"GetChannels", chainID, homeDir>>

CmdGetConnections(chainID, homeDir) == <<"GetConnections", chainID, homeDir>>

\* cmd is run through Exec and res.Err is returned.
Dispatch(m, op, args, cmd) ==
    /\ Ready(m)
    /\ \E out \in RunOutcomes, t1 \in Later(now) :
         LET e == ExecRun(mgr[m], cmd, out, now, t1) IN
           /\ lastOp' = Op(m, op, args, e.calls, e.reports, e.res, DispatchRet(e.res))
           /\ now' = t1
    /\ UNCHANGED <<opts, vres, mgr, volumes, containers, keyOk, nodes, ic>>

CreateClients(m) ==
    \E pathName \in PathNames :
        Dispatch(m, "CreateClients", <<pathName>>, CmdCreateClients(pathName, HomeDir(mgr[m])))

CreateConnections(m) ==
    \E pathName \in PathNames :
        Dispatch(m, "CreateConnections", <<pathName>>,
                 CmdCreateConnections(pathName, HomeDir(mgr[m])))

FlushAcknowledgements(m) ==
    \E pathName \in PathNames, channelID \in ChannelIDs :
        Dispatch(m, "FlushAcknowledgements", <<pathName, channelID>>,
                 CmdFlushAcknowledgements(pathName, channelID, HomeDir(mgr[m])))

FlushPackets(m) ==
    \E pathName \in PathNames, channelID \in ChannelIDs :
        Dispatch(m, "FlushPackets", <<pathName, channelID>>,
                 CmdFlushPackets(pathName, channelID, HomeDir(mgr[m])))

GeneratePath(m) ==
    \E srcChainID \in ChainIDs, dstChainID \in ChainIDs, pathName \in PathNames :
        Dispatch(m, "GeneratePath", <<srcChainID, dstChainID, pathName>>,
                 CmdGeneratePath(srcChainID, dstChainID, pathName, HomeDir(mgr[m])))

UpdateClients(m) ==
    \E pathName \in PathNames :
        Dispatch(m, "UpdateClients", <<pathName>>, CmdUpdateClients(pathName, HomeDir(mgr[m])))

\* What ParseGetChannelsOutput and ParseGetConnectionsOutput can make of the output
\* of a job that ran.
ParseListOutcomes ==
    {[value |-> <<"id-0">>, err |-> Nil], [value |-> <<>>, err |-> <<"failed to parse output">>]}

GetChannelsParsesFirst(r, chainID, out, parsed, t0, t1) ==
    LET e == ExecRun(r, CmdGetChannels(chainID, HomeDir(r)), out, t0, t1) IN
      IF parsed.err # Nil
      THEN [value |-> <<>>, ret |-> parsed.err, exec |-> e,
            parse |-> <<Call("ParseGetChannelsOutput", parsed.err)>>]
      ELSE [value |-> parsed.value, ret |-> e.res.Err, exec |-> e,
            parse |-> <<Call("ParseGetChannelsOutput", Nil)>>]

GetChannelsRun(r, chainID, out, parsed, t0, t1) ==
    LET e == ExecRun(r, CmdGetChannels(chainID, HomeDir(r)), out, t0, t1) IN
      IF e.res.Err # Nil
      THEN [value |-> <<>>, ret |-> e.res.Err, exec |-> e, parse |-> <<>>]
      ELSE [value |-> parsed.value, ret |-> parsed.err, exec |-> e,
            parse |-> <<Call("ParseGetChannelsOutput", parsed.err)>>]

GetChannels(m) ==
    /\ Ready(m)
    /\ \E chainID \in ChainIDs, out \in RunOutcomes, parsed \in ParseListOutcomes,
          t1 \in Later(now) :
         LET g == GetChannelsRun(mgr[m], chainID, out, parsed, now, t1) IN
           /\ lastOp' = Op(m, "GetChannels", <<chainID, g.value>>, g.exec.calls \o g.parse,
                           g.exec.reports, g.exec.res, g.ret)
           /\ now' = t1
    /\ UNCHANGED <<opts, vres, mgr, volumes, containers, keyOk, nodes, ic>>

GetConnectionsRun(r, chainID, out, parsed, t0, t1) ==
    LET e == ExecRun(r, CmdGetConnections(chainID, HomeDir(r)), out, t0, t1) IN
      IF e.res.Err # Nil
      THEN [value |-> <<>>, ret |-> e.res.Err, exec |-> e, parse |-> <<>>]
      ELSE [value |-> parsed.value, ret |-> parsed.err, exec |-> e,
            parse |-> <<Call("ParseGetConnectionsOutput", parsed.err)>>]

GetConnections(m) ==
    /\ Ready(m)
    /\ \E chainID \in ChainIDs, out \in RunOutcomes, parsed \in ParseListOutcomes,
          t1 \in Later(now) :
         LET g == GetConnectionsRun(mgr[m], chainID, out, parsed, now, t1) IN
           /\ lastOp' = Op(m, "GetConnections", <<chainID, g.value>>, g.exec.calls \o g.parse,
                           g.exec.reports, g.exec.res, g.ret)
           /\ now' = t1
    /\ UNCHANGED <<opts, vres, mgr, volumes, containers, keyOk, nodes, ic>>

(***************************************************************************)
(* The dispatch specification: one constructed relayer and the operations  *)
(* that run one command each.                                              *)
(***************************************************************************)
NextDispatch ==
    \/ \E m \in DOMAIN mgr : CreateChannel(m)
    \/ \E m \in DOMAIN mgr : CreateClients(m)
    \/ \E m \in DOMAIN mgr : CreateConnections(m)
    \/ \E m \in DOMAIN mgr : FlushAcknowledgements(m)
    \/ \E m \in DOMAIN mgr : FlushPackets(m)
    \/ \E m \in DOMAIN mgr : GeneratePath(m)
    \/ \E m \in DOMAIN mgr : LinkPath(m)
    \/ \E m \in DOMAIN mgr : UpdateClients(m)
    \/ \E m \in DOMAIN mgr : AddKey(m)
    \/ \E m \in DOMAIN mgr : GetChannels(m)
    \/ \E m \in DOMAIN mgr : GetConnections(m)
    \/ Return

SpecDispatch == InitKeys /\ [][NextDispatch]_vars

(***************************************************************************)
(* runOneOff: a one-off container of the relayer, created, optionally      *)
(* given an archive, started, waited for, and removed on the way out.      *)
(***************************************************************************)
\* How a runtime call made with a context can end: it succeeds, the daemon fails
\* it, or the context is done and the client gives up with the context's error.
CtxOutcomes == {Nil, ErrRuntime, ErrCanceled}

\* The innermost layer of a cancellation error is the context's error.
IsCanceled(err) == err # Nil /\ err[Len(err)] = "context canceled"

\* What the select after ContainerWait finds: whether ctx.Done() is closed, the
\* error on errCh (Nil: none), the response on waitCh ("none": no response yet,
\* "exited": the container ended, "failed": the response carries an error), the
\* StatusCode of a response of an ended container (the exit status of its
\* command), and the ready case that select takes.  The client sends on one
\* channel only.
StatusCodes == {0, 1}

WaitOutcomes ==
    {w \in [ctx : BOOLEAN, err : CtxOutcomes, res : {"none", "exited", "failed"},
            StatusCode : StatusCodes, pick : {"ctx", "err", "res"}] :
        /\ ~(w.err # Nil /\ w.res # "none")
        /\ w.res # "exited" => w.StatusCode = 0
        /\ w.err = ErrCanceled => w.ctx
        /\ w.pick = "ctx" => w.ctx
        /\ w.pick = "err" => w.err # Nil
        /\ w.pick = "res" => w.res # "none"}

\* The container ended and nothing else happened.
WaitExited == [ctx |-> FALSE, err |-> Nil, res |-> "exited", StatusCode |-> 0, pick |-> "res"]

SelectWaitsForResponse(w) ==
    CASE w.err # Nil -> w.err
      [] w.res = "failed" -> <<"waiting for one-off untar-chown container: wait failed">>
      [] OTHER -> Nil

\* The value runOneOff returns from the select: of a response it reads res.Error
\* only, never res.StatusCode.
SelectRet(w) ==
    CASE w.pick = "ctx" -> ErrCanceled
      [] w.pick = "err" -> w.err
      [] w.res = "failed" -> <<"waiting for one-off untar-chown container: wait failed">>
      [] OTHER -> Nil

\* The outcomes of the runtime calls of one runOneOff.  A call that is not reached
\* has no outcome and is listed as succeeding; once the context is done the
\* deferred removal, made with the same context, fails with the context's error.
OneOffOutcomes ==
    {x \in [createErr : CtxOutcomes \cup {ErrConflict}, copyErr : CtxOutcomes,
            startErr : CtxOutcomes, w : WaitOutcomes, rmErr : CtxOutcomes] :
        /\ x.createErr # Nil => (x.copyErr = Nil /\ x.rmErr = Nil)
        /\ (x.createErr # Nil \/ x.copyErr # Nil) => x.startErr = Nil
        /\ (x.createErr # Nil \/ x.copyErr # Nil \/ x.startErr # Nil) => x.w = WaitExited
        /\ (x.copyErr = ErrCanceled \/ x.startErr = ErrCanceled \/ x.w.ctx) => x.rmErr = ErrCanceled}

\* TarContent of a job without an archive.
NoTar == <<>>

\* dockerutil.RandLowerCaseLetterString(5)
RandSuffixes == {"aaaaa", "bbbbb"}

OneOffName(r, o) == RelayerName(r) \o <<o.ContainerNameDetail, o.rand>>

DeferredRemoveMasksResult(primary, rmErr) == IF rmErr # Nil THEN rmErr ELSE primary

\* The deferred ContainerRemove: its error is logged, the value being returned stays.
DeferredRemove(primary, rmErr) == primary

CopyAfterStart(copy, start) == start \o copy

\* The archive is copied into the created container, then the container is started.
CopyThenStart(copy, start) == copy \o start

runOneOff(m, r, o, cs, x, t1) ==
    LET id      == Len(cs) + 1
        made    == Append(cs, NewContainer(OneOffName(r, o), r.testName, Bind(r), o.Cmd, m))
        ran     == Started(made, id, t1)
        waited  == IF x.w.res = "none" THEN ran ELSE Stopped(ran, id, t1)
        create  == <<Call("ContainerCreate", Nil)>>
        copy    == IF o.TarContent # NoTar THEN <<Call("CopyToContainer", x.copyErr)>> ELSE <<>>
        remove  == <<Call("ContainerRemove", x.rmErr)>>
        left(c) == IF x.rmErr = Nil THEN Removed(c, id) ELSE c
    IN  CASE x.createErr # Nil ->
               [containers |-> cs, calls |-> <<Call("ContainerCreate", x.createErr)>>,
                ret |-> Wrap("creating container for untar-chown", x.createErr)]
          [] o.TarContent # NoTar /\ x.copyErr # Nil ->
               [containers |-> left(made), calls |-> create \o copy \o remove,
                ret |-> DeferredRemove(Wrap("copying tar to one-off untar-chown container",
                                            x.copyErr), x.rmErr)]
          [] x.startErr # Nil ->
               [containers |-> left(made),
                calls |-> create \o CopyThenStart(copy, <<Call("ContainerStart", x.startErr)>>)
                          \o remove,
                ret |-> DeferredRemove(Wrap("starting one-off untar-chown container",
                                            x.startErr), x.rmErr)]
          [] OTHER ->
               [containers |-> left(waited),
                calls |-> create \o CopyThenStart(copy, <<Call("ContainerStart", Nil)>>)
                          \o <<Call("ContainerWait", SelectRet(x.w))>> \o remove,
                ret |-> DeferredRemove(SelectRet(x.w), x.rmErr)]

\* dockerutil.GetRootUserString()
RootUser == "0:0"

untarIntoNodeHome(m, r, tar, rand, cs, x, t1) ==
    runOneOff(m, r, [ContainerNameDetail |-> "untar-chown",
                     Cmd |-> <<"chown", "-R", r.c, HomeDir(r)>>,
                     User |-> RootUser, TarContent |-> tar, rand |-> rand], cs, x, t1)

(***************************************************************************)
(* AddChainConfiguration: the configuration is generated, packed into an   *)
(* archive, copied into the volume by a one-off container, then added by   *)
(* the relayer's command.                                                  *)
(***************************************************************************)
CmdAddChainConfiguration(containerFilePath, homeDir) ==
    <<"AddChainConfiguration", containerFilePath, homeDir>>

\* How ConfigContent and generateConfigTar can end.
ConfigOutcomes == {Nil, <<"config content error">>}

TarOutcomes == {Nil, <<"writing config file to tar", "archive/tar: header error">>}

\* The archive of the configuration file of chainID.
ConfigTar(chainID) == <<chainID, ".config">>

\* Nothing failed: the outcomes listed for the steps that are not reached.
OneOffDone == [createErr |-> Nil, copyErr |-> Nil, startErr |-> Nil, w |-> WaitExited,
               rmErr |-> Nil]

AddChainConfigurationDispatchesFirst(m, r, chainID, cfgErr, tarErr, rand, cs, x, out, t0, t1) ==
    LET u == untarIntoNodeHome(m, r, ConfigTar(chainID), rand, cs, x, t1)
        e == ExecRun(r, CmdAddChainConfiguration(HomeDir(r) \o ConfigTar(chainID), HomeDir(r)),
                     out, t0, t1)
    IN  CASE cfgErr # Nil ->
               [containers |-> cs, calls |-> <<>>, reports |-> <<>>, res |-> NoRes,
                ret |-> Wrap("failed to generate config content", cfgErr)]
          [] tarErr # Nil ->
               [containers |-> cs, calls |-> <<>>, reports |-> <<>>, res |-> NoRes,
                ret |-> Wrap("generating tar for configuration", tarErr)]
          [] OTHER ->
               [containers |-> u.containers, calls |-> e.calls \o u.calls, reports |-> e.reports,
                res |-> e.res, ret |-> IF u.ret # Nil THEN u.ret ELSE e.res.Err]

AddChainConfigurationRun(m, r, chainID, cfgErr, tarErr, rand, cs, x, out, t0, t1) ==
    LET u == untarIntoNodeHome(m, r, ConfigTar(chainID), rand, cs, x, t1)
        e == ExecRun(r, CmdAddChainConfiguration(HomeDir(r) \o ConfigTar(chainID), HomeDir(r)),
                     out, t0, t1)
    IN  CASE cfgErr # Nil ->
               [containers |-> cs, calls |-> <<>>, reports |-> <<>>, res |-> NoRes,
                ret |-> Wrap("failed to generate config content", cfgErr)]
          [] tarErr # Nil ->
               [containers |-> cs, calls |-> <<>>, reports |-> <<>>, res |-> NoRes,
                ret |-> Wrap("generating tar for configuration", tarErr)]
          [] u.ret # Nil ->
               [containers |-> u.containers, calls |-> u.calls, reports |-> <<>>, res |-> NoRes,
                ret |-> u.ret]
          [] OTHER ->
               [containers |-> u.containers, calls |-> u.calls \o e.calls, reports |-> e.reports,
                res |-> e.res, ret |-> e.res.Err]

AddChainConfiguration(m) ==
    /\ Ready(m)
    \* A step that is not reached has no outcome: it is listed as succeeding.
    /\ \E cfgErr \in ConfigOutcomes :
       \E tarErr \in IF cfgErr # Nil THEN {Nil} ELSE TarOutcomes :
       \E rand \in IF cfgErr # Nil \/ tarErr # Nil THEN {"aaaaa"} ELSE RandSuffixes :
       \E x \in IF cfgErr # Nil \/ tarErr # Nil THEN {OneOffDone} ELSE OneOffOutcomes :
       \E out \in IF cfgErr # Nil \/ tarErr # Nil \/ x.createErr # Nil \/ x.copyErr # Nil
                      \/ x.startErr # Nil \/ SelectRet(x.w) # Nil
                   THEN {RunOk} ELSE RunOutcomes :
       \E chainID \in ChainIDs, t1 \in Later(now) :
         LET name == RelayerName(mgr[m]) \o <<"untar-chown", rand>> IN
           /\ x.createErr \in CreateOutcomes(containers, name) \cup {ErrCanceled}
           /\ x.createErr = Nil => Len(containers) < MaxContainers
           /\ LET a == AddChainConfigurationRun(m, mgr[m], chainID, cfgErr, tarErr, rand,
                                                containers, x, out, now, t1) IN
                /\ containers' = a.containers
                /\ lastOp' = Op(m, "AddChainConfiguration", <<chainID, cfgErr, tarErr, x, rand, out>>,
                                a.calls, a.reports, a.res, a.ret)
                /\ now' = t1
    /\ UNCHANGED <<opts, vres, mgr, volumes, keyOk, nodes, ic>>

(***************************************************************************)
(* The configuration specification: one manager is constructed, given      *)
(* chain configurations and started, beside one chain node.                *)
(***************************************************************************)
InitConfig ==
    /\ OptsIdle
    /\ mgr = [m \in {"r1"} |-> MgrAbsent]
    /\ volumes = <<>>
    /\ containers = <<>>
    /\ now = MaxTime
    /\ lastOp = NoOp
    /\ keyOk = [m \in {"r1"} |-> <<>>]
    /\ nodes = [n \in {"n1"} |-> ChainNodes[n]] /\ ic = NewInterchain

NextConfig ==
    \/ \E m \in DOMAIN mgr : NewDockerRelayer(m)
    \/ \E m \in DOMAIN mgr : AddChainConfiguration(m)
    \/ \E m \in DOMAIN mgr : StartRelayer(m)
    \/ \E m \in DOMAIN mgr : StopRelayer(m)
    \/ \E k \in DOMAIN nodes : TnCreateNodeContainer(k)
    \/ Return

SpecConfig == InitConfig /\ [][NextConfig]_vars

(***************************************************************************)
(* StartContainer of a chain node: the container is started and inspected, *)
(* then retry.Do repeats a readiness probe.  The call is followed step by  *)
(* step: lastOp.args[1] holds where it is (pc), the attempt number n, the  *)
(* errorLog of retry.Do, whether the context of the caller is done, and    *)
(* how the latest probe ended.                                             *)
(***************************************************************************)
\* retry.Attempts(10) of the relay-chain and parachain nodes.
RtyAtt == 10

\* retry.LastErrorOnly(true) of the relay-chain and parachain nodes.
RtyErr == TRUE

\* What retry.Do uses when the caller gives no option, as the Tendermint node does.
DefaultAttempts == 10

DefaultLastErrorOnly == FALSE

NodeKinds == {"tendermint", "relaychain", "parachain"}

RetryConfig(kind) ==
    IF kind = "tendermint"
    THEN [attempts |-> DefaultAttempts, lastErrorOnly |-> DefaultLastErrorOnly]
    ELSE [attempts |-> RtyAtt, lastErrorOnly |-> RtyErr]

ErrStatus == <<"rpc status: connection refused">>

ErrCatchingUp == <<"still catching up">>

ErrDial == <<"dial ws: connection refused">>

ErrHandshake == <<"websocket: bad handshake">>

\* How one probe can end.  The Tendermint probe is Client.Status(ctx), which fails
\* at once when ctx is done; the probe of the other kinds, gsrpc.NewSubstrateAPI,
\* takes no context.
ProbeOutcomes(kind, done) ==
    IF kind = "tendermint"
    THEN IF done THEN {ErrCanceled} ELSE {Nil, ErrStatus, ErrCatchingUp}
    ELSE {Nil, ErrDial, ErrHandshake}

\* make(Error, attempts), or make(Error, 1) under LastErrorOnly.
NewErrorLog(cfg) == [i \in 1 .. (IF cfg.lastErrorOnly THEN 1 ELSE cfg.attempts) |-> Nil]

RECURSIVE Concat(_)
Concat(log) == IF log = <<>> THEN <<>> ELSE Head(log) \o Concat(Tail(log))

\* retry.Error: the errors of all the attempts, as one error.
RetryError(log) == <<"All attempts fail">> \o Concat(log)

ExhaustedReturnsNil(cfg, log, lastErrIndex) == Nil

\* What retry.Do returns when it leaves the loop after a failed attempt.
Exhausted(cfg, log, lastErrIndex) ==
    IF cfg.lastErrorOnly THEN log[lastErrIndex + 1] ELSE RetryError(log)

NextAttemptStuck(n) == n

\* n++ at the end of an iteration.
NextAttempt(n) == n + 1

\* The names of the node containers, by kind of node.
RelayChainNodeName(n) ==
    <<"relaychain", ToString(n.Index), n.ChainID, SanitizeContainerName(n.TestName)>>

ParachainNodeName(n) ==
    <<n.Bin, ToString(n.Index), n.ChainID, SanitizeContainerName(n.TestName)>>

NodeName(n) ==
    CASE n.kind = "tendermint" -> TendermintNodeName(n)
      [] n.kind = "relaychain" -> RelayChainNodeName(n)
      [] n.kind = "parachain"  -> ParachainNodeName(n)

NodeKeys == <<"t1", "p1", "q1">>

\* One node of each kind, its container created (CreateNodeContainer succeeded).
StartNodes ==
    [k \in {NodeKeys[i] : i \in 1 .. 3} |->
        [kind |-> CASE k = "t1" -> "tendermint" [] k = "p1" -> "relaychain" [] k = "q1" -> "parachain",
         Index |-> 0, ChainID |-> "c1", TestName |-> "T", VolumeName |-> k, Bin |-> "polkadot-parachain",
         containerID |-> CHOOSE i \in 1 .. 3 : NodeKeys[i] = k]]

StartContainers ==
    [i \in 1 .. 3 |->
        NewContainer(NodeName(StartNodes[NodeKeys[i]]), "T", <<NodeKeys[i]>>, <<"start">>, NodeKeys[i])]

Loop(pc, n, lastErrIndex, errorLog, done, probe) ==
    [pc |-> pc, n |-> n, lastErrIndex |-> lastErrIndex, errorLog |-> errorLog, done |-> done,
     probe |-> probe]

NoProbe == <<"none">>

InStartContainer(k) == lastOp.op = "StartContainer" /\ lastOp.m = k

\* StartContainer up to the first probe: dockerutil.StartContainer, ContainerInspect,
\* for a Tendermint node NewClient and the five-second sleep, then the entry of
\* retry.Do, which returns the error of a context that is already done.
BeginStartContainer(k) ==
    /\ Idle
    /\ nodes[k].containerID # NoID
    /\ \E done \in BOOLEAN :
       \E startErr \in IF done THEN {ErrCanceled} ELSE IdOutcomes(containers, nodes[k].containerID) :
       \E inspectErr \in IF startErr # Nil THEN {Nil} ELSE CallOutcomes :
       \E clientErr \in IF startErr # Nil \/ inspectErr # Nil \/ nodes[k].kind # "tendermint"
                        THEN {Nil} ELSE {Nil, <<"invalid address">>} :
         LET cfg   == RetryConfig(nodes[k].kind)
             first == IF startErr # Nil THEN startErr
                      ELSE IF inspectErr # Nil THEN inspectErr ELSE clientErr
             calls == <<Call("ContainerStart", startErr)>>
                        \o (IF startErr = Nil THEN <<Call("ContainerInspect", inspectErr)>> ELSE <<>>)
         IN  /\ containers' = IF startErr = Nil
                              THEN Started(containers, nodes[k].containerID, now)
                              ELSE containers
             /\ lastOp' = Op(k, "StartContainer",
                             <<Loop(IF first = Nil THEN "probe" ELSE "done", 0, 0,
                                    NewErrorLog(cfg), done, NoProbe)>>,
                             calls, <<>>, NoRes, first)
    /\ UNCHANGED <<opts, vres, mgr, volumes, now, keyOk, nodes, ic>>

\* One attempt of retry.Do: the probe, and what the loop does with its error.
Probe(k) ==
    /\ InStartContainer(k)
    /\ lastOp.args[1].pc = "probe"
    /\ \E err \in ProbeOutcomes(nodes[k].kind, lastOp.args[1].done) :
         LET l   == lastOp.args[1]
             cfg == RetryConfig(nodes[k].kind)
             log == [l.errorLog EXCEPT ![l.lastErrIndex + 1] = err]
         IN  lastOp' =
               IF err = Nil
               THEN [lastOp EXCEPT !.args = <<[l EXCEPT !.pc = "done", !.probe = err]>>, !.ret = Nil]
               ELSE IF l.n = cfg.attempts - 1
               THEN [lastOp EXCEPT !.args = <<[l EXCEPT !.pc = "done", !.probe = err,
                                                        !.errorLog = log]>>,
                                   !.ret = Exhausted(cfg, log, l.lastErrIndex)]
               ELSE [lastOp EXCEPT !.args = <<[l EXCEPT !.pc = "delay", !.probe = err,
                                                        !.errorLog = log]>>]
    /\ UNCHANGED <<opts, vres, mgr, volumes, containers, now, keyOk, nodes, ic>>

\* The select between the delay and ctx.Done().
Delay(k) ==
    /\ InStartContainer(k)
    /\ lastOp.args[1].pc = "delay"
    /\ LET l   == lastOp.args[1]
           cfg == RetryConfig(nodes[k].kind)
           n1  == NextAttempt(l.n)
       IN  \/ lastOp' = [lastOp EXCEPT !.args =
                           <<[l EXCEPT !.pc = "probe", !.n = n1,
                                       !.lastErrIndex = IF cfg.lastErrorOnly THEN l.lastErrIndex
                                                        ELSE n1]>>]
           \/ /\ l.done
              /\ lastOp' =
                   IF cfg.lastErrorOnly
                   THEN [lastOp EXCEPT !.args = <<[l EXCEPT !.pc = "done"]>>, !.ret = ErrCanceled]
                   ELSE LET log == [l.errorLog EXCEPT ![l.n + 2] = ErrCanceled] IN
                        [lastOp EXCEPT !.args = <<[l EXCEPT !.pc = "done", !.errorLog = log]>>,
                                       !.ret = RetryError(log)]
    /\ UNCHANGED <<opts, vres, mgr, volumes, containers, now, keyOk, nodes, ic>>

\* The caller cancels the context while StartContainer is running.
Cancel ==
    /\ lastOp.op = "StartContainer"
    /\ lastOp.args[1].pc # "done"
    /\ ~lastOp.args[1].done
    /\ lastOp' = [lastOp EXCEPT !.args = <<[lastOp.args[1] EXCEPT !.done = TRUE]>>]
    /\ UNCHANGED <<opts, vres, mgr, volumes, containers, now, keyOk, nodes, ic>>

StartContainerReturn ==
    /\ lastOp.op = "StartContainer"
    /\ lastOp.args[1].pc = "done"
    /\ Return

InitStart ==
    /\ OptsIdle
    /\ mgr = <<>>
    /\ volumes = <<>>
    /\ containers = StartContainers
    /\ now = MaxTime
    /\ lastOp = NoOp
    /\ keyOk = <<>>
    /\ nodes = StartNodes /\ ic = NewInterchain

NextStart ==
    \/ \E k \in DOMAIN nodes : BeginStartContainer(k)
    \/ \E k \in DOMAIN nodes : Probe(k)
    \/ \E k \in DOMAIN nodes : Delay(k)
    \/ Cancel
    \/ StartContainerReturn

SpecStart == InitStart /\ [][NextStart]_vars

\* StartContainer runs on its own goroutine and is not starved: a probe that can be
\* made is made, and a delay that can end ends.
SpecStartLive ==
    /\ SpecStart
    /\ WF_vars(\E k \in DOMAIN nodes : Probe(k))
    /\ WF_vars(\E k \in DOMAIN nodes : Delay(k))

(***************************************************************************)
(* The frame specification: two constructed relayers on one runtime, each  *)
(* driven through its keys, its container and Exec, in any interleaving.   *)
(* The callers use one chain and one path.                                 *)
(***************************************************************************)
FrameCommanders == [m \in Managers |-> IF m = "r1" THEN [name |-> "rly", hasInit |-> TRUE]
                                       ELSE [name |-> "hermes", hasInit |-> FALSE]]

InitFrame ==
    /\ OptsIdle
    /\ mgr = Constructed(Managers, FrameCommanders).mgr
    /\ volumes = Constructed(Managers, FrameCommanders).volumes
    /\ containers = <<>>
    /\ now = MaxTime
    /\ lastOp = NoOp
    /\ keyOk = [m \in Managers |-> <<>>]
    /\ nodes = <<>> /\ ic = NewInterchain

\* What the callers of this specification pass: the chain c1, the path p.
FrameCall ==
    /\ lastOp'.op \in {"AddKey", "RestoreKey"} => lastOp'.args[1] = "c1"
    /\ lastOp'.op = "StartRelayer" => lastOp'.args[1] = <<"p">>

NextFrame ==
    \/ \E m \in DOMAIN mgr : AddKey(m) /\ FrameCall
    \/ \E m \in DOMAIN mgr : RestoreKey(m) /\ FrameCall
    \/ \E m \in DOMAIN mgr : StartRelayer(m) /\ FrameCall
    \/ \E m \in DOMAIN mgr : StopRelayer(m)
    \/ \E m \in DOMAIN mgr : Exec(m)
    \/ Return

SpecFrame == InitFrame /\ [][NextFrame]_vars

(***************************************************************************)
(* Concurrent Exec: several callers call Exec on one manager at once.  A   *)
(* call takes three steps: it reads the clock and starts the job, the job  *)
(* returns, the deferred function reports.  lastOp.args[1] holds the local *)
(* variables of each call, lastOp.reports what the reporter has received.  *)
(***************************************************************************)
MaxCalls == 2

NoCmd == <<>>

ExecCall(pc, cmd, startedAt, res) == [pc |-> pc, cmd |-> cmd, startedAt |-> startedAt, res |-> res]

ExecCalls == lastOp.args[1]

InExecs == lastOp.op = "Execs"

LatestResult(cs, i) ==
    LET ran == {j \in DOMAIN cs : cs[j].pc \in {"ran", "done"}}
    IN  cs[CHOOSE j \in ran : \A k \in ran : k <= j].res

\* res is a local variable of the call: the deferred function of call i reads the
\* result of call i.
OwnResult(cs, i) == cs[i].res

\* cmd is given, startedAt := time.Now(), and job.Run starts.
ExecBegin(m, i) ==
    /\ InExecs /\ lastOp.m = m
    /\ ExecCalls[i].pc = "idle"
    /\ \E cmd \in ExecCmds :
         lastOp' = [lastOp EXCEPT !.args = <<[ExecCalls EXCEPT ![i] =
                                                ExecCall("running", cmd, now, NoRes)]>>]
    /\ UNCHANGED <<opts, vres, mgr, volumes, containers, now, keyOk, nodes, ic>>

\* res := job.Run(ctx, cmd, opts) returns.
ExecRan(m, i) ==
    /\ InExecs /\ lastOp.m = m
    /\ ExecCalls[i].pc = "running"
    /\ \E out \in RunOutcomes :
         lastOp' = [lastOp EXCEPT !.args = <<[ExecCalls EXCEPT ![i].pc = "ran", ![i].res = out]>>]
    /\ UNCHANGED <<opts, vres, mgr, volumes, containers, now, keyOk, nodes, ic>>

\* The deferred function calls rep.TrackRelayerExec, and Exec returns res.
ExecReport(m, i) ==
    /\ InExecs /\ lastOp.m = m
    /\ ExecCalls[i].pc = "ran"
    /\ LET c == ExecCalls[i]
           e == ExecRun(mgr[m], c.cmd, OwnResult(ExecCalls, i), c.startedAt, now)
       IN  lastOp' = [lastOp EXCEPT !.args = <<[ExecCalls EXCEPT ![i].pc = "done"]>>,
                                    !.reports = lastOp.reports \o e.reports]
    /\ UNCHANGED <<opts, vres, mgr, volumes, containers, now, keyOk, nodes, ic>>

\* One constructed manager, and from one to MaxCalls calls of Exec about to start.
InitExecs ==
    /\ OptsIdle
    /\ \E cs \in [{"r1"} -> Commanders] :
         /\ mgr = Constructed({"r1"}, cs).mgr
         /\ volumes = Constructed({"r1"}, cs).volumes
    /\ containers = <<>>
    /\ now = MaxTime
    /\ \E n \in 1 .. MaxCalls :
         lastOp = Op("r1", "Execs", <<[i \in 1 .. n |-> ExecCall("idle", NoCmd, ZeroTime, NoRes)]>>,
                     <<>>, <<>>, NoRes, Nil)
    /\ keyOk = [m \in {"r1"} |-> <<>>]
    /\ nodes = <<>> /\ ic = NewInterchain

NextExecs ==
    \/ \E m \in DOMAIN mgr : \E i \in DOMAIN ExecCalls : ExecBegin(m, i)
    \/ \E m \in DOMAIN mgr : \E i \in DOMAIN ExecCalls : ExecRan(m, i)
    \/ \E m \in DOMAIN mgr : \E i \in DOMAIN ExecCalls : ExecReport(m, i)

SpecExecs == InitExecs /\ [][NextExecs]_vars

(***************************************************************************)
(* generateConfigTar: one file written through archive/tar.  An archive is *)
(* a sequence of blocks: the header of a member, its content in blocks of  *)
(* BlockSize bytes, the last one padded with zeros, and two empty blocks   *)
(* at the end.  TarMembers reads an archive back, as tar.Reader does.      *)
(***************************************************************************)
BlockSize == 2

MaxContent == 3

Bytes == {0, 1, 255}

Contents == UNION {[1 .. n -> Bytes] : n \in 0 .. MaxContent}

\* RelayerCommander.DockerUser: the user the commander's image runs as.
DockerUser(c) == IF c = "rly" THEN "100:1000" ELSE "1000:1000"

ZeroBlock == [kind |-> "zero"]

DataBlock(bytes) == [kind |-> "data", bytes |-> bytes]

HeaderBlock(hdr) == [kind |-> "header", hdr |-> hdr]

RECURSIVE Zeros(_)
Zeros(n) == IF n = 0 THEN <<>> ELSE <<0>> \o Zeros(n - 1)

\* The content of a member cut into blocks, the last one padded.
RECURSIVE Blocks(_)
Blocks(bytes) ==
    IF bytes = <<>> THEN <<>>
    ELSE IF Len(bytes) <= BlockSize
    THEN <<DataBlock(bytes \o Zeros(BlockSize - Len(bytes)))>>
    ELSE <<DataBlock(SubSeq(bytes, 1, BlockSize))>> \o Blocks(SubSeq(bytes, BlockSize + 1, Len(bytes)))

\* tar.NewWriter: nb is what is left to write of the current member.
TarNewWriter == [blocks |-> <<>>, data |-> <<>>, nb |-> 0]

ErrWriteTooLong == <<"archive/tar: write too long">>

ErrMissedWriting == <<"archive/tar: missed writing bytes">>

\* Writer.WriteHeader: ends the member before, then writes the header.
TarWriteHeader(w, hdr) ==
    IF w.nb > 0 THEN [w |-> w, err |-> ErrMissedWriting]
    ELSE [w |-> [blocks |-> w.blocks \o Blocks(w.data) \o <<HeaderBlock(hdr)>>, data |-> <<>>,
                 nb |-> hdr.Size],
          err |-> Nil]

\* Writer.Write: no more than the Size of the header can be written.
TarWrite(w, bytes) ==
    IF Len(bytes) > w.nb
    THEN [w |-> [w EXCEPT !.data = w.data \o SubSeq(bytes, 1, w.nb), !.nb = 0],
          err |-> ErrWriteTooLong]
    ELSE [w |-> [w EXCEPT !.data = w.data \o bytes, !.nb = w.nb - Len(bytes)], err |-> Nil]

\* Writer.Close: the member must be complete; the archive ends with two empty blocks.
TarClose(w) ==
    IF w.nb > 0 THEN [w |-> w, err |-> ErrMissedWriting]
    ELSE [w |-> [blocks |-> w.blocks \o Blocks(w.data) \o <<ZeroBlock, ZeroBlock>>,
                 data |-> <<>>, nb |-> 0],
          err |-> Nil]

RECURSIVE BlockBytes(_)
BlockBytes(blocks) == IF blocks = <<>> THEN <<>> ELSE Head(blocks).bytes \o BlockBytes(Tail(blocks))

\* tar.Reader: the members of an archive, each with the Size bytes that follow its header.
RECURSIVE TarMembers(_)
TarMembers(blocks) ==
    IF blocks = <<>> \/ Head(blocks).kind # "header" THEN <<>>
    ELSE LET hdr  == Head(blocks).hdr
             n    == (hdr.Size + BlockSize - 1) \div BlockSize
             body == SubSeq(blocks, 2, n + 1)
         IN  <<[hdr |-> hdr, body |-> SubSeq(BlockBytes(body), 1, hdr.Size)]>>
               \o TarMembers(SubSeq(blocks, n + 2, Len(blocks)))

ConfigHeaderWorldReadable(r, relativeConfigPath, content, t) ==
    [Name |-> relativeConfigPath, Size |-> Len(content), Mode |-> 420, Uname |-> DockerUser(r.c),
     ModTime |-> t, Format |-> "PAX"]

\* The tar.Header of generateConfigTar; Mode is 0600.
ConfigHeader(r, relativeConfigPath, content, t) ==
    [Name |-> relativeConfigPath, Size |-> Len(content), Mode |-> 384, Uname |-> DockerUser(r.c),
     ModTime |-> t, Format |-> "PAX"]

NoArchive == <<>>

generateConfigTar(r, relativeConfigPath, content, t) ==
    LET h == TarWriteHeader(TarNewWriter, ConfigHeader(r, relativeConfigPath, content, t))
        b == TarWrite(h.w, content)
        c == TarClose(b.w)
    IN  CASE h.err # Nil -> [tar |-> NoArchive, err |-> Wrap("writing config file to tar", h.err)]
          [] b.err # Nil -> [tar |-> NoArchive, err |-> Wrap("writing config content to tar", b.err)]
          [] c.err # Nil -> [tar |-> NoArchive, err |-> Wrap("closing tar writer", c.err)]
          [] OTHER       -> [tar |-> c.w.blocks, err |-> Nil]

\* generateConfigTar applied to the configuration file of a chain.
GenerateConfigTar(m) ==
    /\ Ready(m)
    /\ \E chainID \in ChainIDs, content \in Contents :
         LET g == generateConfigTar(mgr[m], ConfigTar(chainID), content, now) IN
           lastOp' = Op(m, "generateConfigTar", <<ConfigTar(chainID), content, g.tar>>, <<>>, <<>>,
                        NoRes, g.err)
    /\ UNCHANGED <<opts, vres, mgr, volumes, containers, now, keyOk, nodes, ic>>

InitTar ==
    /\ OptsIdle
    /\ \E cs \in [{"r1"} -> Commanders] :
         /\ mgr = Constructed({"r1"}, cs).mgr
         /\ volumes = Constructed({"r1"}, cs).volumes
    /\ containers = <<>>
    /\ now \in Epoch + 1 .. MaxTime
    /\ lastOp = NoOp
    /\ keyOk = [m \in {"r1"} |-> <<>>]
    /\ nodes = <<>> /\ ic = NewInterchain

NextTar ==
    \/ \E m \in DOMAIN mgr : GenerateConfigTar(m)
    \/ Return

SpecTar == InitTar /\ [][NextTar]_vars

(***************************************************************************)
(* The interchain specification: chains and relayers are added to a new    *)
(* Interchain, in any order; a test recovers from a panic and goes on.     *)
(***************************************************************************)
InitInterchain ==
    /\ OptsIdle
    /\ mgr = <<>>
    /\ volumes = <<>>
    /\ containers = <<>>
    /\ now = MaxTime
    /\ lastOp = NoOp
    /\ keyOk = <<>>
    /\ nodes = <<>>
    /\ ic = NewInterchain

NextInterchain ==
    \/ AddChain
    \/ AddRelayer
    \/ Return

SpecInterchain == InitInterchain /\ [][NextInterchain]_vars

(***************************************************************************)
(* TendermintNodes.PeerString: the peer addresses of the nodes of a list,  *)
(* for one node of the chain.  A string is the sequence of its pieces; the *)
(* empty string is <<>>.                                                   *)
(***************************************************************************)
MaxNodes == 3

\* The nodes a list can hold: node p is the validator of index p - 1, whose
\* config/node_key.json can be read (keyErr = Nil) or not.
PeerNode(p, keyErr) ==
    [kind |-> "tendermint", ptr |-> p, Index |-> p - 1, ChainID |-> "c1", TestName |-> "T",
     VolumeName |-> ToString(p), containerID |-> NoID, keyErr |-> keyErr]

ErrNoNodeKey == <<"getting node_key.json content", "file not found">>

\* Lists of distinct nodes.
PeerLists ==
    {tn \in UNION {[1 .. n -> {PeerNode(p, e) : p \in 1 .. MaxNodes, e \in {Nil, ErrNoNodeKey}}] :
                     n \in 1 .. MaxNodes} :
        \A i, j \in 1 .. Len(tn) : tn[i].ptr = tn[j].ptr => i = j}

\* NodeID: the id of the key in the volume of the node.
NodeID(n) ==
    IF n.keyErr # Nil THEN [id |-> <<>>, err |-> n.keyErr]
    ELSE [id |-> <<"id", ToString(n.ptr)>>, err |-> Nil]

\* dockerutil.CondenseHostName(tn.Name()): the host name made of the name.
TnHostName(n) == <<"host">> \o TendermintNodeName(n)

\* fmt.Sprintf("%s@%s:26656", id, hostName)
PeerAddress(id, hostName) == id \o <<"@">> \o hostName \o <<":26656">>

\* strings.Join(elems, sep)
RECURSIVE Join(_, _)
Join(elems, sep) ==
    CASE Len(elems) = 0 -> <<>>
      [] Len(elems) = 1 -> elems[1]
      [] OTHER -> elems[1] \o <<sep>> \o Join(Tail(elems), sep)

\* The loop over the list from position i: the slot of the node itself is
\* skipped, the first id that cannot be read ends the loop.
RECURSIVE PeerLoop(_, _, _, _)
PeerLoop(tn, node, i, addrs) ==
    CASE i > Len(tn) -> [addrs |-> addrs, calls |-> <<>>]
      [] tn[i].ptr = node -> PeerLoop(tn, node, i + 1, addrs)
      [] NodeID(tn[i]).err # Nil ->
           [addrs |-> addrs, calls |-> <<Call("NodeID", NodeID(tn[i]).err)>>]
      [] OTHER ->
           LET ps   == PeerAddress(NodeID(tn[i]).id, TnHostName(tn[i]))
               rest == PeerLoop(tn, node, i + 1, [addrs EXCEPT ![i] = ps])
           IN  [addrs |-> rest.addrs, calls |-> <<Call("NodeID", Nil)>> \o rest.calls]

\* addrs := make([]string, len(tn)): one empty string for every node of the list.
PeerStringRun(tn, node) ==
    LET l == PeerLoop(tn, node, 1, [i \in 1 .. Len(tn) |-> <<>>])
    IN  [addrs |-> l.addrs, calls |-> l.calls, ret |-> Join(l.addrs, ",")]

\* node: a node of the list, or one that is not in it (0).
PeerString ==
    /\ Idle
    /\ \E node \in {nodes[i].ptr : i \in 1 .. Len(nodes)} \cup {0} :
         LET p == PeerStringRun(nodes, node) IN
           lastOp' = Op(node, "PeerString", <<node, p.addrs>>, p.calls, <<>>, NoRes, p.ret)
    /\ UNCHANGED <<opts, vres, mgr, volumes, containers, now, keyOk, nodes, ic>>

InitPeers ==
    /\ OptsIdle
    /\ mgr = <<>>
    /\ volumes = <<>>
    /\ containers = <<>>
    /\ now = MaxTime
    /\ lastOp = NoOp
    /\ keyOk = <<>>
    /\ nodes \in PeerLists
    /\ ic = NewInterchain

NextPeers == PeerString \/ Return

SpecPeers == InitPeers /\ [][NextPeers]_vars

(***************************************************************************)
(* The volume specification: one manager is constructed and driven through *)
(* every operation that creates a container or runs a job: Exec, AddKey,   *)
(* AddChainConfiguration, StartRelayer, StopRelayer.  The callers use the  *)
(* chain c1 and the path p.                                                *)
(***************************************************************************)
VolumeCall ==
    /\ lastOp'.op = "AddKey" =>
          lastOp'.args[1] = "c1" /\ lastOp'.args[2].Address \in {NoWallet.Address, "a1"}
    /\ lastOp'.op = "AddChainConfiguration" =>
          lastOp'.args[1] = "c1" /\ lastOp'.args[5] = "aaaaa"
    /\ lastOp'.op = "StartRelayer" => lastOp'.args[1] = <<"p">>

NextVolume ==
    \/ \E m \in DOMAIN mgr : NewDockerRelayer(m)
    \/ \E m \in DOMAIN mgr : Exec(m)
    \/ \E m \in DOMAIN mgr : AddKey(m) /\ VolumeCall
    \/ \E m \in DOMAIN mgr : AddChainConfiguration(m) /\ VolumeCall
    \/ \E m \in DOMAIN mgr : StartRelayer(m) /\ VolumeCall
    \/ \E m \in DOMAIN mgr : StopRelayer(m)
    \/ Return

SpecVolume == InitConfig /\ [][NextVolume]_vars

(***************************************************************************)
(* PenumbraAppNode.CreateKey: a wallet is generated, then an address is     *)
(* made in it.  A string is the sequence of its words.                     *)
(***************************************************************************)
PenumbraNode == [kind |-> "penumbra", Index |-> 0, ChainID |-> "c1", TestName |-> "T",
                 VolumeName |-> "v1", Name |-> "penumbra", containerID |-> NoID]

\* fmt.Sprintf("/root/.%s", p.Chain.Config().Name)
PenumbraHomeDir(p) == <<"/root/.", p.Name>>

\* filepath.Join(p.HomeDir(), "wallet")
WalletPathContainer(p) == PenumbraHomeDir(p) \o <<"wallet">>

CmdWalletGenerate(p) == <<"pcli", "-w">> \o WalletPathContainer(p) \o <<"wallet", "generate">>

CmdAddrNew(p, keyName) == <<"pcli", "-w">> \o WalletPathContainer(p) \o <<"addr", "new", keyName>>

AlreadyExists == <<"already", "exists,", "refusing", "to", "overwrite", "it">>

\* strings.Contains(s, substr)
Contains(s, substr) ==
    \E i \in 1 .. Len(s) - Len(substr) + 1 : SubSeq(s, i, i + Len(substr) - 1) = substr

\* What pcli can write to stderr, and how a job of the node can end.
PcliStderrs ==
    {<<>>,
     <<"Error:", "no", "such", "file">>,
     <<"Error:", "wallet", "file", "already", "exists">>,
     <<"Error:", "wallet", "file">> \o AlreadyExists,
     <<"Error:">> \o AlreadyExists \o <<"(wallet)">>}

PcliOutcomes ==
    {o \in [stderr : PcliStderrs, err : {Nil, <<"exit code 1">>, ErrRuntime, ErrCanceled}] :
        o.err \in {ErrRuntime, ErrCanceled} => o.stderr = <<>>}

PcliOk == [stderr |-> <<>>, err |-> Nil]

KeyNamesPenumbra == {"validator", "k"}

CreateKeyIntolerant(p, keyName, gen, addr) ==
    IF gen.err # Nil
    THEN [calls |-> <<Call(CmdWalletGenerate(p), gen.err)>>, ret |-> gen.err]
    ELSE [calls |-> <<Call(CmdWalletGenerate(p), gen.err), Call(CmdAddrNew(p, keyName), addr.err)>>,
          ret |-> addr.err]

\* gen and addr are how the two jobs end; the error that the wallet already
\* exists is passed over.
CreateKeyRun(p, keyName, gen, addr) ==
    IF gen.err # Nil /\ ~Contains(gen.stderr, AlreadyExists)
    THEN [calls |-> <<Call(CmdWalletGenerate(p), gen.err)>>, ret |-> gen.err]
    ELSE [calls |-> <<Call(CmdWalletGenerate(p), gen.err), Call(CmdAddrNew(p, keyName), addr.err)>>,
          ret |-> addr.err]

CreateKey(k) ==
    /\ Idle
    /\ \E keyName \in KeyNamesPenumbra, gen \in PcliOutcomes, addr \in PcliOutcomes :
         LET c == CreateKeyRun(nodes[k], keyName, gen, addr) IN
           \* A job that is not run has no outcome: it is listed as succeeding.
           /\ Len(c.calls) = 1 => addr = PcliOk
           /\ lastOp' = Op(k, "CreateKey", <<keyName, gen, addr>>, c.calls, <<>>, NoRes, c.ret)
    /\ UNCHANGED <<opts, vres, mgr, volumes, containers, now, keyOk, nodes, ic>>

InitPenumbra ==
    /\ OptsIdle
    /\ mgr = <<>>
    /\ volumes = <<>>
    /\ containers = <<>>
    /\ now = MaxTime
    /\ lastOp = NoOp
    /\ keyOk = <<>>
    /\ nodes = [k \in {"pd1"} |-> PenumbraNode]
    /\ ic = NewInterchain

NextPenumbra == (\E k \in DOMAIN nodes : CreateKey(k)) \/ Return

SpecPenumbra == InitPenumbra /\ [][NextPenumbra]_vars

(***************************************************************************)
(* The options specification: Validate and DefaultChannelOpts applied to   *)
(* every options value of the bounds.                                      *)
(***************************************************************************)
ApplyValidate ==
    /\ vres.fn # "Validate"
    /\ vres' = [fn |-> "Validate", err |-> Validate(opts)]
    /\ UNCHANGED <<opts, mgr, volumes, containers, now, lastOp, keyOk, nodes, ic>>

ApplyDefaultChannelOpts ==
    /\ vres.fn = "none"
    /\ opts' = DefaultChannelOpts
    /\ vres' = [fn |-> "DefaultChannelOpts", err |-> Nil]
    /\ UNCHANGED <<mgr, volumes, containers, now, lastOp, keyOk, nodes, ic>>

InitOpts ==
    /\ ic = NewInterchain
    /\ opts \in AllOpts
    /\ vres = [fn |-> "none", err |-> Nil]
    /\ RelayerIdle({"r1"})

NextOpts == ApplyValidate \/ ApplyDefaultChannelOpts

SpecOpts == InitOpts /\ [][NextOpts]_vars

(***************************************************************************)
(* Claims.                                                                 *)
(***************************************************************************)
\* C1: Validate() returns no error exactly when both port names pass the
\* port-identifier check, the version is not empty and the order is Ordered or
\* Unordered; an order of Invalid always fails.
C1_ValidateIffWellFormed ==
    vres.fn = "Validate" =>
        /\ vres.err = Nil <=>
             /\ PortIdentifierValidator(opts.SourcePortName) = Nil
             /\ PortIdentifierValidator(opts.DestPortName) = Nil
             /\ opts.Version # ""
             /\ opts.Order \in {Ordered, Unordered}
        /\ opts.Order = Invalid => vres.err # Nil

C1_Witness ==
    /\ vres.fn = "Validate"
    /\ opts = [SourcePortName |-> <<"a", "a">>, DestPortName |-> TransferPort,
               Order |-> Invalid, Version |-> "ics20-1"]
    /\ vres.err = ErrInvalidChannelOrdering

\* C2: DefaultChannelOpts() returns transfer/transfer/Unordered/ics20-1, and that
\* value passes Validate().
C2_DefaultOptsValid ==
    /\ vres.fn = "DefaultChannelOpts" =>
         /\ opts.SourcePortName = <<"t", "r", "a", "n", "s", "f", "e", "r">>
         /\ opts.DestPortName = <<"t", "r", "a", "n", "s", "f", "e", "r">>
         /\ opts.Order = 2
         /\ opts.Version = "ics20-1"
    /\ (vres.fn = "Validate" /\ opts = DefaultChannelOpts) => vres.err = Nil

C2_Witness == vres.fn = "Validate" /\ opts = DefaultChannelOpts /\ vres.err = Nil

\* The operations that run exactly one Exec call.
ExecOps == {"Exec", "CreateChannel", "LinkPath"}

\* C3: every call of Exec hands the reporter exactly one report, whether the job
\* succeeded, failed or was cancelled, and the report carries the command, stdout,
\* stderr, exit code and error of that call.
C3_ExecReportsOnce ==
    /\ lastOp.op \in ExecOps =>
         /\ Len(lastOp.reports) = 1
         /\ lastOp.reports[1].stdout = lastOp.res.Stdout
         /\ lastOp.reports[1].stderr = lastOp.res.Stderr
         /\ lastOp.reports[1].exitCode = lastOp.res.ExitCode
         /\ lastOp.reports[1].err = lastOp.res.Err
    /\ lastOp.op = "Exec" => lastOp.reports[1].command = lastOp.args[1]

C3_Witness ==
    /\ lastOp.op = "Exec"
    /\ lastOp.res.Err = ErrCanceled
    /\ Len(lastOp.reports) = 1
    /\ lastOp.reports[1].err = ErrCanceled
    /\ lastOp.reports[1].command = <<"ls">>

\* C4 (as claimed): every call of StopRelayer hands the reporter exactly one
\* report, whatever the outcome of its runtime calls.
C4_StopReportsOnce == lastOp.op = "StopRelayer" => Len(lastOp.reports) = 1

\* C5: in every report, of Exec and of StopRelayer, startedAt is not later than
\* finishedAt, also when StopRelayer replaced a timestamp by its fallback.
C5_ReportTimesOrdered ==
    \A i \in 1 .. Len(lastOp.reports) :
        lastOp.reports[i].startedAt <= lastOp.reports[i].finishedAt

C5_Witness ==
    /\ lastOp.op = "StopRelayer"
    /\ Len(lastOp.reports) = 1
    /\ lastOp.reports[1].startedAt = Epoch
    /\ lastOp.reports[1].finishedAt = now
    /\ now = MaxTime

\* C6 (as claimed): CreateChannel and LinkPath called with options that fail
\* Validate() make no runtime call and return the validation error.
C6_ValidatedBeforeDispatch ==
    (lastOp.op \in {"CreateChannel", "LinkPath"} /\ Validate(lastOp.args[2]) # Nil) =>
        /\ lastOp.calls = <<>>
        /\ lastOp.ret = Validate(lastOp.args[2])

\* The number of calls named name among cs.
CountCalls(cs, name) == Cardinality({i \in 1 .. Len(cs) : cs[i][1] = name})

VolumesOf(m) == {i \in 1 .. Len(volumes) : volumes[i].creator = m}

\* C9: constructing a manager creates exactly one volume and runs the init command
\* at most once, and no later operation of the manager creates another volume.
C9_OneVolumePerManager ==
    /\ \A m \in DOMAIN mgr :
         /\ Cardinality(VolumesOf(m)) <= 1
         /\ mgr[m].state = "ready" => VolumesOf(m) = {mgr[m].volumeName}
    /\ lastOp.op = "NewDockerRelayer" =>
         /\ CountCalls(lastOp.calls, "VolumeCreate") <= 1
         /\ CountCalls(lastOp.calls, "job.Run") <= 1
         /\ lastOp.ret = Nil => CountCalls(lastOp.calls, "VolumeCreate") = 1

C9_Witness ==
    /\ lastOp.op = "StopRelayer"
    /\ lastOp.ret = Nil
    /\ mgr[lastOp.m].state = "ready"
    /\ Cardinality(VolumesOf(lastOp.m)) = 1

\* C10 (as claimed): StopRelayer on a manager whose container is gone, or was never
\* started, returns an error that names the failing operation, not the runtime's
\* raw error.
C10_StopOnMissingIsDescriptive ==
    (lastOp.op = "StopRelayer" /\ lastOp.calls[1] = Call("ContainerStop", ErrNotFound)) =>
        /\ lastOp.ret # Nil
        /\ lastOp.ret # ErrNotFound
        /\ Len(lastOp.ret) > 1

\* C7: GetWallet(chainID) reports found exactly when an earlier AddKey or RestoreKey
\* for that chain ID succeeded, and then returns the wallet of the most recent such
\* success; for a chain ID never associated it reports not found, and no error.
C7_GetWalletAfterSuccess ==
    lastOp.op = "GetWallet" =>
        LET chainID == lastOp.args[1]
            wallet  == lastOp.args[2]
            found   == lastOp.args[3]
        IN  /\ found <=> chainID \in DOMAIN keyOk[lastOp.m]
            /\ found => wallet = keyOk[lastOp.m][chainID]
            /\ lastOp.ret = Nil

C7_Witness ==
    /\ lastOp.op = "GetWallet"
    /\ lastOp.args = <<"c2", [Mnemonic |-> "m2", Address |-> "a1"], TRUE>>
    /\ "c1" \notin DOMAIN mgr[lastOp.m].wallets

\* The container name the last call asked the runtime for.
RequestedName ==
    IF lastOp.op = "StartRelayer"
    THEN RelayerContainerName(mgr[lastOp.m], lastOp.args[1])
    ELSE TendermintNodeName(nodes[lastOp.m])

\* C8 (as claimed): two distinct participants of one test run never get the same
\* container name or volume name.
C8_NamesNeverCollide ==
    /\ lastOp.op \in {"StartRelayer", "CreateNodeContainer"} =>
         \A i \in 1 .. Len(containers) :
             (containers[i].status # "removed" /\ containers[i].creator # lastOp.m)
                 => containers[i].name # RequestedName
    /\ \A i, j \in 1 .. Len(volumes) : i # j => volumes[i].name # volumes[j].name

\* The position of the first call named name among cs, 0 when there is none.
CallIndex(cs, name) ==
    IF \E i \in 1 .. Len(cs) : cs[i][1] = name
    THEN CHOOSE i \in 1 .. Len(cs) : cs[i][1] = name /\ \A j \in 1 .. i - 1 : cs[j][1] # name
    ELSE 0

\* A container made by runOneOff for untarIntoNodeHome.
IsUntarContainer(c) == Len(c.name) = 4 /\ c.name[3] = "untar-chown"

\* The last call reached the select of runOneOff.
ReachedWait == lastOp.op = "AddChainConfiguration" /\ CallIndex(lastOp.calls, "ContainerWait") > 0

\* C11: when the context of a one-off job is cancelled after the container was
\* started and before the container ended, with no response of the runtime to the
\* wait, runOneOff returns the context's cancellation error and goes no further.
C11_CancelledWaitReturnsCtxErr ==
    (/\ ReachedWait
     /\ lastOp.args[4].w.ctx
     /\ lastOp.args[4].w.res = "none"
     /\ lastOp.args[4].w.err \in {Nil, ErrCanceled}) =>
        /\ IsCanceled(lastOp.ret)
        /\ lastOp.calls[CallIndex(lastOp.calls, "ContainerWait")][2] = lastOp.ret
        /\ CountCalls(lastOp.calls, "job.Run") = 0

C11_Witness ==
    /\ ReachedWait
    /\ lastOp.args[4].w = [ctx |-> TRUE, err |-> Nil, res |-> "none", StatusCode |-> 0, pick |-> "ctx"]
    /\ lastOp.ret = ErrCanceled
    /\ \E i \in 1 .. Len(containers) :
         containers[i].status = "running" /\ IsUntarContainer(containers[i])

\* C12: once runOneOff has created its container it asks for the removal of that
\* container exactly once, after its other runtime calls, on every way out; the
\* outcome of the removal never changes the value returned.
C12_RemoveOnceNeverMasks ==
    lastOp.op = "AddChainConfiguration" =>
        LET created == CallIndex(lastOp.calls, "ContainerCreate") > 0
                         /\ lastOp.calls[CallIndex(lastOp.calls, "ContainerCreate")][2] = Nil
            rm      == CallIndex(lastOp.calls, "ContainerRemove")
            a       == lastOp.args
        IN  /\ CountCalls(lastOp.calls, "ContainerRemove") = (IF created THEN 1 ELSE 0)
            /\ created =>
                 \A i \in 1 .. Len(lastOp.calls) :
                     lastOp.calls[i][1] \in {"ContainerCreate", "CopyToContainer",
                                             "ContainerStart", "ContainerWait"} => i < rm
            /\ lastOp.ret =
                 AddChainConfigurationRun(lastOp.m, mgr[lastOp.m], a[1], a[2], a[3], a[5], <<>>,
                                          [a[4] EXCEPT !.rmErr = Nil], a[6], now, now).ret

C12_Witness ==
    /\ lastOp.op = "AddChainConfiguration"
    /\ lastOp.calls = <<Call("ContainerCreate", Nil), Call("CopyToContainer", Nil),
                        Call("ContainerStart", ErrRuntime), Call("ContainerRemove", ErrRuntime)>>
    /\ lastOp.ret = Wrap("starting one-off untar-chown container", ErrRuntime)

\* C13: in a one-off job with archive content the archive is copied into the
\* container before the container is started, and when the copy fails the
\* container is never started.
C13_CopyBeforeStart ==
    lastOp.op = "AddChainConfiguration" =>
        LET copy  == CallIndex(lastOp.calls, "CopyToContainer")
            start == CallIndex(lastOp.calls, "ContainerStart")
        IN  /\ start > 0 => (copy > 0 /\ copy < start /\ lastOp.calls[copy][2] = Nil)
            /\ (copy > 0 /\ lastOp.calls[copy][2] # Nil) =>
                 /\ start = 0
                 /\ \A i \in 1 .. Len(containers) :
                      (containers[i].status # "removed"
                         /\ containers[i].name = OneOffName(mgr[lastOp.m],
                               [ContainerNameDetail |-> "untar-chown", rand |-> lastOp.args[5]]))
                        => containers[i].status = "created"

C13_Witness ==
    /\ lastOp.op = "AddChainConfiguration"
    /\ lastOp.calls = <<Call("ContainerCreate", Nil), Call("CopyToContainer", ErrRuntime),
                        Call("ContainerRemove", ErrRuntime)>>
    /\ \E i \in 1 .. Len(containers) :
         containers[i].status = "created" /\ IsUntarContainer(containers[i])

\* The test name a participant was constructed with.
TestNameOf(who) == IF who \in DOMAIN mgr THEN mgr[who].testName ELSE nodes[who].TestName

\* C14: every container and every volume the orchestration layer creates carries
\* the cleanup label, whose value is the test name of the manager that created it.
C14_CleanupLabelOnEverything ==
    /\ \A i \in 1 .. Len(containers) :
         containers[i].status # "removed" =>
             /\ containers[i].label \in TestNames
             /\ containers[i].label = TestNameOf(containers[i].creator)
    /\ \A i \in 1 .. Len(volumes) :
         /\ volumes[i].label \in TestNames
         /\ mgr[volumes[i].creator].state = "ready" =>
              volumes[i].label = mgr[volumes[i].creator].testName
         /\ (lastOp.op = "NewDockerRelayer" /\ lastOp.m = volumes[i].creator) =>
              volumes[i].label = lastOp.args[2]

C14_Witness ==
    /\ Len(volumes) = 1 /\ volumes[1].label = "T/sub"
    /\ Len(containers) = 2
    /\ containers[1].name = <<"node", "0", "c1", "T">> /\ containers[1].label = "T"
    /\ IsUntarContainer(containers[2]) /\ containers[2].label = "T/sub"

\* The steps of StopRelayer, in the order of the code.
StopSteps ==
    <<"ContainerStop", "ContainerLogs", "StdCopy", "ContainerInspect", "TrackRelayerExec",
      "ContainerRemove">>

\* C15: StopRelayer stops the container, retrieves the logs, inspects the
\* container, forwards the report and removes the container, in this order; the
\* report is forwarded before the removal is asked for, and a step that fails ends
\* the call: no later step is performed.
C15_StopStepsInOrder ==
    lastOp.op = "StopRelayer" =>
        LET n == Len(lastOp.calls) IN
          /\ n \in 1 .. Len(StopSteps)
          /\ \A i \in 1 .. n : lastOp.calls[i][1] = StopSteps[i]
          /\ \A i \in 1 .. n - 1 : lastOp.calls[i][2] = Nil
          /\ n < Len(StopSteps) => lastOp.calls[n][2] # Nil
          /\ (lastOp.ret # Nil) <=> (lastOp.calls[n][2] # Nil)
          /\ Len(lastOp.reports) = CountCalls(lastOp.calls, "TrackRelayerExec")

C15_Witness ==
    /\ lastOp.op = "StopRelayer"
    /\ Len(lastOp.calls) = 6
    /\ lastOp.calls[5] = Call("TrackRelayerExec", Nil)
    /\ lastOp.calls[6] = Call("ContainerRemove", Nil)
    /\ lastOp.ret = Nil
    /\ containers[lastOp.args[1]].status = "removed"

\* C16 (as claimed): StopRelayer substitutes the epoch and the current time for a
\* timestamp that fails to parse, and a timestamp of the runtime that is well
\* formed is carried by the report as the runtime recorded it.
C16_ParsedTimestampsReported ==
    (/\ lastOp.op = "StopRelayer"
     /\ Len(lastOp.reports) = 1
     /\ Exists(containers, lastOp.args[1])) =>
        LET c == containers[lastOp.args[1]]
            s == TimeParse(RFC3339Nano, c.startedAt)
            f == TimeParse(RFC3339Nano, c.finishedAt)
        IN  /\ lastOp.reports[1].startedAt = (IF s.err = Nil THEN s.t ELSE Epoch)
            /\ lastOp.reports[1].finishedAt = (IF f.err = Nil THEN f.t ELSE now)

\* The operations that only dispatch a command.
DispatchOps ==
    {"CreateChannel", "CreateClients", "CreateConnections", "FlushPackets",
     "FlushAcknowledgements", "GeneratePath", "LinkPath", "UpdateClients"}

\* C17: an operation that only dispatches a command returns an error exactly when
\* the error of the ExecResult is set, and then that error; a non-zero exit code
\* or output on stderr alone is not turned into an error.
C17_DispatchReturnsResErr ==
    lastOp.op \in DispatchOps =>
        /\ lastOp.calls = <<Call("job.Run", lastOp.res.Err)>>
        /\ (lastOp.ret # Nil) <=> (lastOp.res.Err # Nil)
        /\ lastOp.ret = lastOp.res.Err
        /\ (lastOp.res.Err = Nil /\ (lastOp.res.ExitCode # 0 \/ lastOp.res.Stderr # ""))
              => lastOp.ret = Nil

C17_Witness ==
    /\ lastOp.op = "FlushPackets"
    /\ lastOp.res = [Stdout |-> "", Stderr |-> "err", ExitCode |-> 1, Err |-> Nil]
    /\ lastOp.ret = Nil

\* The operations that parse the output of their command.
ParsingOps == {"AddKey", "GetChannels", "GetConnections"}

ParserCalls ==
    {i \in 1 .. Len(lastOp.calls) :
        lastOp.calls[i][1] \in {"ParseAddKeyOutput", "ParseGetChannelsOutput",
                                "ParseGetConnectionsOutput"}}

\* C18: in AddKey, GetChannels and GetConnections the output parser runs exactly
\* when the execution returned no error; an execution error is returned as it is,
\* and an error of the parser is returned only for a command that executed.
C18_ParseOnlyAfterSuccess ==
    lastOp.op \in ParsingOps =>
        /\ lastOp.calls[1] = Call("job.Run", lastOp.res.Err)
        /\ (ParserCalls # {}) <=> (lastOp.res.Err = Nil)
        /\ lastOp.res.Err # Nil => lastOp.ret = lastOp.res.Err
        /\ \A i \in ParserCalls : i = 2 /\ lastOp.ret = lastOp.calls[i][2]

C18_Witness ==
    /\ lastOp.op = "GetChannels"
    /\ lastOp.res.Err = Nil
    /\ lastOp.calls = <<Call("job.Run", Nil),
                        Call("ParseGetChannelsOutput", <<"failed to parse output">>)>>
    /\ lastOp.ret = <<"failed to parse output">>

\* The volume named name exists and was created by m.
VolumeOf(m, name) == \E i \in 1 .. Len(volumes) : volumes[i].name = name /\ volumes[i].creator = m

\* C19: within one manager, no container (init job, configuration one-off,
\* long-running relayer container) is created before the volume of the manager
\* was created and the volume-ownership job has ended successfully.
C19_InitBeforeContainers ==
    /\ lastOp.op = "NewDockerRelayer" =>
         LET vol == CallIndex(lastOp.calls, "VolumeCreate")
             own == CallIndex(lastOp.calls, "SetVolumeOwner")
             run == CallIndex(lastOp.calls, "job.Run")
         IN  /\ own > 0 => (vol > 0 /\ vol < own /\ lastOp.calls[vol][2] = Nil)
             /\ run > 0 => (own > 0 /\ own < run /\ lastOp.calls[own][2] = Nil)
    /\ (lastOp.op \in {"AddChainConfiguration", "StartRelayer"} /\ lastOp.calls # <<>>) =>
         /\ mgr[lastOp.m].state = "ready"
         /\ VolumeOf(lastOp.m, mgr[lastOp.m].volumeName)
    /\ \A i \in 1 .. Len(containers) :
         (containers[i].status # "removed" /\ containers[i].creator \in DOMAIN mgr) =>
             /\ containers[i].binds = Bind(mgr[containers[i].creator])
             /\ VolumeOf(containers[i].creator, containers[i].binds[1])

C19_Witness ==
    /\ lastOp.op = "StartRelayer"
    /\ lastOp.ret = Nil
    /\ Len(containers) = 2
    /\ IsUntarContainer(containers[1]) /\ containers[1].binds[1] = 1
    /\ containers[2].status = "running" /\ containers[2].binds[1] = 1
    /\ VolumeOf("r1", 1)

\* C20: a failed transition leaves the manager in the last state reached.  A
\* StartRelayer whose container creation fails leaves containerID as it was, a
\* StartRelayer whose container start fails leaves the manager holding the
\* container that was created and is not running, and a failed Exec or StopRelayer
\* changes neither volumeName nor containerID.
C20_FailedTransitionKeepsState ==
    [][(lastOp.op = "none" /\ lastOp'.op \in {"StartRelayer", "Exec", "StopRelayer"}
          /\ lastOp'.ret # Nil) =>
         LET m == lastOp'.m IN
           /\ mgr'[m].volumeName = mgr[m].volumeName
           /\ mgr'[m].state = mgr[m].state
           /\ lastOp'.op \in {"Exec", "StopRelayer"} =>
                mgr'[m].containerID = mgr[m].containerID
           /\ (lastOp'.op = "StartRelayer" /\ lastOp'.calls[1][2] # Nil) =>
                /\ mgr'[m].containerID = mgr[m].containerID
                /\ containers' = containers
           /\ (lastOp'.op = "StartRelayer" /\ lastOp'.calls[1][2] = Nil) =>
                /\ mgr'[m].containerID = Len(containers')
                /\ Len(containers') = Len(containers) + 1
                /\ containers'[mgr'[m].containerID].status = "created"]_vars

C20_Witness ==
    /\ lastOp.op = "StartRelayer"
    /\ lastOp.calls = <<Call("ContainerCreate", Nil), Call("StartContainer", ErrRuntime)>>
    /\ lastOp.ret = ErrRuntime
    /\ mgr[lastOp.m].containerID = Len(containers)
    /\ containers[Len(containers)].status = "created"

\* C21: a manager holds one container id at a time.  A successful StartRelayer
\* leaves it holding a container made by that call, running and bound to the
\* volume of the manager; after a successful StopRelayer the id the manager holds
\* names no container of the runtime.
C21_OneLiveContainerId ==
    /\ (lastOp.op = "StartRelayer" /\ lastOp.ret = Nil) =>
         LET r == mgr[lastOp.m] IN
           /\ r.containerID = Len(containers)
           /\ containers[r.containerID].status = "running"
           /\ containers[r.containerID].creator = lastOp.m
           /\ containers[r.containerID].cmd = CmdStartRelayer(lastOp.args[1], HomeDir(r))
           /\ containers[r.containerID].binds = <<r.volumeName, HomeDir(r)>>
           /\ VolumesOf(lastOp.m) = {r.volumeName}
    /\ (lastOp.op = "StopRelayer" /\ lastOp.ret = Nil) =>
         /\ lastOp.args[1] = mgr[lastOp.m].containerID
         /\ ~Exists(containers, mgr[lastOp.m].containerID)

C21_Witness ==
    /\ lastOp.op = "StopRelayer"
    /\ lastOp.ret = Nil
    /\ mgr[lastOp.m].containerID = 2
    /\ Len(containers) = 2
    /\ containers[1].status = "running"
    /\ containers[2].status = "removed"

\* C22: the readiness loop of StartContainer terminates.  A StartContainer that is
\* running comes to its end; it makes at most 10 probes, for the three kinds of
\* node; and it returns success only when its latest probe succeeded.
C22_ReadinessLoopTerminates ==
    /\ (lastOp.op = "StartContainer" /\ lastOp.args[1].pc # "done")
          ~> (lastOp.op = "StartContainer" /\ lastOp.args[1].pc = "done")
    /\ [](lastOp.op = "StartContainer" =>
            /\ lastOp.args[1].n + 1 <= 10
            /\ (lastOp.args[1].pc = "done" /\ lastOp.ret = Nil) => lastOp.args[1].probe = Nil
            /\ (lastOp.args[1].pc = "done" /\ lastOp.args[1].probe = Nil) => lastOp.ret = Nil)

\* A relay-chain node whose tenth probe failed: the budget is exhausted.
C22_Witness ==
    /\ lastOp.op = "StartContainer"
    /\ nodes[lastOp.m].kind = "relaychain"
    /\ lastOp.args[1].pc = "done"
    /\ lastOp.args[1].n = 9
    /\ ~lastOp.args[1].done
    /\ lastOp.ret # Nil

\* C23: when the retry budget is exhausted (the tenth probe failed), StartContainer
\* returns the error of that last probe, for every kind of node.
C23_ExhaustionReturnsLastProbeError ==
    (/\ lastOp.op = "StartContainer"
     /\ lastOp.args[1].pc = "done"
     /\ lastOp.args[1].n = RetryConfig(nodes[lastOp.m].kind).attempts - 1
     /\ lastOp.args[1].probe \notin {Nil, NoProbe})
        => lastOp.ret = lastOp.args[1].probe

\* The same, for the relay-chain and parachain nodes alone.
C23_LastErrorOnlyNodes ==
    (/\ lastOp.op = "StartContainer"
     /\ nodes[lastOp.m].kind # "tendermint"
     /\ lastOp.args[1].pc = "done"
     /\ lastOp.args[1].n = RtyAtt - 1
     /\ lastOp.args[1].probe \notin {Nil, NoProbe})
        => lastOp.ret = lastOp.args[1].probe

\* C24: the runtime calls are made with the context of the caller.  When
\* NewDockerRelayer is called with a context that is cancelled, every runtime call
\* it makes, the image pull included, ends with the error of that context.
C24_CallsEndWithCallerContext ==
    (lastOp.op = "NewDockerRelayer" /\ lastOp.args[3]) =>
        \A i \in 1 .. Len(lastOp.calls) : IsCanceled(lastOp.calls[i][2])

\* The same, of every call but the image pull.
C24_CallsButPull ==
    (lastOp.op = "NewDockerRelayer" /\ lastOp.args[3]) =>
        \A i \in 1 .. Len(lastOp.calls) :
            lastOp.calls[i][1] # "ImagePull" => IsCanceled(lastOp.calls[i][2])

\* The operations C25 names; runOneOff is reached through AddChainConfiguration.
RuntimeOps == {"NewDockerRelayer", "StartRelayer", "StopRelayer", "AddChainConfiguration"}

\* The removal of a container that is not the deferred removal of a one-off container.
IsCleanup(op, call) == op = "AddChainConfiguration" /\ call[1] = "ContainerRemove"

EndsWith(err, inner) ==
    Len(inner) <= Len(err) /\ SubSeq(err, Len(err) - Len(inner) + 1, Len(err)) = inner

\* C25: runtime errors are not retried.  In NewDockerRelayer, StartRelayer,
\* StopRelayer and runOneOff no call is made twice, and the first call that fails
\* (the removal of the one-off container aside) ends the operation: no call but that
\* removal follows it, and the operation returns its error.
C25_NoRetryFirstFailureEnds ==
    lastOp.op \in RuntimeOps =>
        /\ \A i, j \in 1 .. Len(lastOp.calls) :
              lastOp.calls[i][1] = lastOp.calls[j][1] => i = j
        /\ \A i \in 1 .. Len(lastOp.calls) :
              (lastOp.calls[i][2] # Nil /\ ~IsCleanup(lastOp.op, lastOp.calls[i])) =>
                 /\ \A j \in i + 1 .. Len(lastOp.calls) : IsCleanup(lastOp.op, lastOp.calls[j])
                 /\ EndsWith(lastOp.ret, lastOp.calls[i][2])

\* A one-off container whose start failed: nothing but the removal follows.
C25_Witness ==
    /\ lastOp.op = "AddChainConfiguration"
    /\ Len(lastOp.calls) = 4
    /\ lastOp.calls[3] = Call("ContainerStart", ErrRuntime)
    /\ lastOp.calls[4][1] = "ContainerRemove"
    /\ EndsWith(lastOp.ret, ErrRuntime)

\* The operations C26 names.
FrameOps == {"AddKey", "RestoreKey", "StartRelayer", "StopRelayer", "Exec"}

\* C26: two managers share no mutable state.  A step in which one manager performs
\* AddKey, RestoreKey, StartRelayer, StopRelayer or Exec leaves the volume name, the
\* container id and the wallets of every other manager as they were.
C26_OtherManagerUnchanged ==
    [][\A m \in DOMAIN mgr :
          (lastOp'.op \in FrameOps /\ lastOp'.m # m) =>
              /\ mgr'[m].volumeName = mgr[m].volumeName
              /\ mgr'[m].containerID = mgr[m].containerID
              /\ mgr'[m].wallets = mgr[m].wallets]_vars

\* r1 has just restored a key while r2 holds a running container and another wallet.
C26_Witness ==
    /\ lastOp.op = "RestoreKey"
    /\ lastOp.m = "r1"
    /\ lastOp.ret = Nil
    /\ HasWallet(mgr["r1"].wallets, "c1")
    /\ HasWallet(mgr["r2"].wallets, "c1")
    /\ mgr["r1"].wallets # mgr["r2"].wallets
    /\ Exists(containers, mgr["r2"].containerID)
    /\ containers[mgr["r2"].containerID].status = "running"
    /\ mgr["r1"].volumeName # mgr["r2"].volumeName

\* The report a call makes of itself, the time of the report aside.
SameCall(report, r, c) ==
    /\ report.containerName = RelayerName(r)
    /\ report.command = c.cmd
    /\ report.stdout = c.res.Stdout
    /\ report.stderr = c.res.Stderr
    /\ report.exitCode = c.res.ExitCode
    /\ report.err = c.res.Err
    /\ report.startedAt = c.startedAt

\* C27: concurrent Exec calls on one manager do not mix up their reports.  Under
\* every interleaving the reporter holds one report for each call that has
\* returned: some one-to-one matching gives every report the command and the
\* result of its own call.  When all N calls have returned there are N reports.
C27_OneReportPerCall ==
    InExecs =>
        LET done == {i \in DOMAIN ExecCalls : ExecCalls[i].pc = "done"}
            idx  == 1 .. Len(lastOp.reports)
        IN  /\ Len(lastOp.reports) = Cardinality(done)
            /\ \E f \in [idx -> done] :
                  /\ \A a, b \in idx : f[a] = f[b] => a = b
                  /\ \A a \in idx : SameCall(lastOp.reports[a], mgr[lastOp.m], ExecCalls[f[a]])

\* Two calls with different commands and different results, both returned, the
\* second reported first.
C27_Witness ==
    /\ InExecs
    /\ DOMAIN ExecCalls = 1 .. 2
    /\ \A i \in 1 .. 2 : ExecCalls[i].pc = "done"
    /\ ExecCalls[1].cmd # ExecCalls[2].cmd
    /\ ExecCalls[1].res.Err = Nil /\ ExecCalls[2].res.Err # Nil
    /\ Len(lastOp.reports) = 2
    /\ lastOp.reports[1].command = ExecCalls[2].cmd
    /\ lastOp.reports[1].err = ExecCalls[2].res.Err

\* C28: generateConfigTar builds an archive that holds one member.  Read back, the
\* archive gives exactly one member: its name is the relative path given, its mode
\* 0600, its owner name the Docker user of the commander, its size the length of
\* the content and its body the content, byte for byte.
C28_ArchiveHoldsTheFile ==
    lastOp.op = "generateConfigTar" =>
        LET members == TarMembers(lastOp.args[3]) IN
          /\ lastOp.ret = Nil
          /\ Len(members) = 1
          /\ members[1].hdr.Name = lastOp.args[1]
          /\ members[1].hdr.Mode = 384
          /\ members[1].hdr.Uname = DockerUser(mgr[lastOp.m].c)
          /\ members[1].hdr.Size = Len(lastOp.args[2])
          /\ members[1].body = lastOp.args[2]

\* A content that ends with a zero byte and does not fill its last block.
C28_Witness ==
    /\ lastOp.op = "generateConfigTar"
    /\ lastOp.args[2] = <<255, 1, 0>>
    /\ Len(lastOp.args[3]) = 5
    /\ mgr[lastOp.m].c = "hermes"

SameName(a, b) == ChainConfigs[a].Name = ChainConfigs[b].Name

SameID(a, b) == ChainConfigs[a].ChainID = ChainConfigs[b].ChainID

\* C29: an Interchain holds no two chains that conflict.  No two chains it holds
\* have the same name or the same chain ID; and AddChain of a chain panics, adding
\* nothing, with "chain ... was already added" when the Interchain holds that chain,
\* and otherwise with "a chain with name ... already exists" or "a chain with ID
\* ... already exists" when it holds a chain of that name or of that chain ID.
\* Without a conflict the chain is added.
C29_NoConflictingChains ==
    /\ \A a, b \in DOMAIN ic.chains : (SameName(a, b) \/ SameID(a, b)) => a = b
    /\ (lastOp.op = "AddChain" /\ lastOp.args[1] # NilParticipant) =>
         LET chain  == lastOp.args[1]
             before == lastOp.args[2]
             held   == DOMAIN before.chains
             byName == {c \in held : SameName(c, chain)}
             byID   == {c \in held : SameID(c, chain)}
         IN  IF chain \in held
             THEN lastOp.ret = <<"chain", chain, "was already added">> /\ ic = before
             ELSE IF byName \cup byID # {}
             THEN /\ ic = before
                  /\ \/ /\ byName # {}
                        /\ lastOp.ret = <<"a chain with name", ChainConfigs[chain].Name,
                                          "already exists">>
                     \/ /\ byID # {}
                        /\ lastOp.ret = <<"a chain with ID", ChainConfigs[chain].ChainID,
                                          "already exists">>
             ELSE /\ lastOp.ret = Nil
                  /\ DOMAIN ic.chains = held \cup {chain}
                  /\ ic.relayers = before.relayers

\* A chain whose chain ID is held already, under another name, is refused.
C29_Witness ==
    /\ lastOp.op = "AddChain"
    /\ lastOp.args[1] = "g2"
    /\ DOMAIN ic.chains = {"g0"}
    /\ lastOp.ret = <<"a chain with ID", "cosmoshub-0", "already exists">>

\* C30: an Interchain holds no two relayers that conflict, and no nil participant.
\* No two relayers it holds have the same name and nil is neither a chain nor a
\* relayer of it; AddRelayer panics, adding nothing, with "relayer ... was already
\* added" when the relayer is held under any name, or with "a relayer with name ...
\* already exists" when another relayer has the name; AddChain(nil) panics with
\* "cannot add nil chain" and AddRelayer(nil, name) with "cannot add nil relayer".
C30_NoConflictingRelayersNoNil ==
    /\ \A a, b \in DOMAIN ic.relayers : ic.relayers[a] = ic.relayers[b] => a = b
    /\ NilParticipant \notin (DOMAIN ic.chains) \cup (DOMAIN ic.relayers)
    /\ (lastOp.op = "AddChain" /\ lastOp.args[1] = NilParticipant) =>
         lastOp.ret = <<"cannot add nil chain">> /\ ic = lastOp.args[2]
    /\ (lastOp.op = "AddRelayer" /\ lastOp.args[1] = NilParticipant) =>
         lastOp.ret = <<"cannot add nil relayer">> /\ ic = lastOp.args[3]
    /\ (lastOp.op = "AddRelayer" /\ lastOp.args[1] # NilParticipant) =>
         LET relayer == lastOp.args[1]
             name    == lastOp.args[2]
             before  == lastOp.args[3]
             held    == DOMAIN before.relayers
             named   == {r \in held \ {relayer} : before.relayers[r] = name}
         IN  IF relayer \in held \/ named # {}
             THEN /\ ic = before
                  /\ \/ /\ relayer \in held
                        /\ lastOp.ret = <<"relayer", relayer, "was already added">>
                     \/ /\ named # {}
                        /\ lastOp.ret = <<"a relayer with name", name, "already exists">>
             ELSE /\ lastOp.ret = Nil
                  /\ ic.relayers = Put(before.relayers, relayer, name)
                  /\ ic.chains = before.chains

\* A relayer that is held as "r" is refused under the name "r2".
C30_Witness ==
    /\ lastOp.op = "AddRelayer"
    /\ lastOp.args[1] = "x1"
    /\ lastOp.args[2] = "r2"
    /\ ic.relayers = [x \in {"x1"} |-> "r"]
    /\ lastOp.ret = <<"relayer", "x1", "was already added">>

\* C31: a partial failure triggers no cleanup.  A NewDockerRelayer that fails
\* after its volume was created makes no call that removes a volume and leaves
\* the new volume, and every volume there was, in the runtime; an Exec that
\* fails or is cancelled makes no call on a container and leaves the containers
\* of the runtime, the relayer's long-running one among them, as they were.
C31_NoImplicitCleanup ==
    [][/\ (lastOp'.op = "NewDockerRelayer" /\ lastOp'.ret # Nil) =>
            /\ \A i \in 1 .. Len(lastOp'.calls) : lastOp'.calls[i][1] # "VolumeRemove"
            /\ \A i \in 1 .. Len(volumes) : volumes'[i] = volumes[i]
            /\ (\E i \in 1 .. Len(lastOp'.calls) : lastOp'.calls[i] = Call("VolumeCreate", Nil)) =>
                  /\ Len(volumes') = Len(volumes) + 1
                  /\ volumes'[Len(volumes')].creator = lastOp'.m
       /\ (lastOp'.op = "Exec" /\ lastOp'.ret # Nil) =>
            /\ containers' = containers
            /\ \A i \in 1 .. Len(lastOp'.calls) :
                  lastOp'.calls[i][1] \notin {"ContainerStop", "ContainerRemove"}]_vars

\* An Exec was cancelled while the relayer's container runs.
C31_Witness ==
    /\ lastOp.op = "Exec"
    /\ lastOp.ret = ErrCanceled
    /\ Exists(containers, mgr[lastOp.m].containerID)
    /\ containers[mgr[lastOp.m].containerID].status = "running"

\* The init command failed: the volume NewDockerRelayer made is still there.
C31_WitnessVolume ==
    /\ lastOp.op = "NewDockerRelayer"
    /\ lastOp.ret # Nil
    /\ Len(lastOp.calls) = 4
    /\ Len(volumes) = 1

\* C32: NewDockerRelayer makes its calls in the order image pull, volume create,
\* volume owner, init command, each only after the one before succeeded.  The
\* image is pulled exactly when pulling is on (on unless an option turns it
\* off); a failed pull ends the construction with no volume created; the init
\* command runs exactly when the commander has one and the owner job succeeded.
C32_Steps(pull, hasInit) ==
    (IF pull THEN <<"ImagePull">> ELSE <<>>) \o <<"VolumeCreate", "SetVolumeOwner">>
        \o (IF hasInit THEN <<"job.Run">> ELSE <<>>)

C32_WitnessPullFailed ==
    /\ lastOp.op = "NewDockerRelayer"
    /\ Len(lastOp.calls) = 1
    /\ lastOp.calls[1][1] = "ImagePull"
    /\ lastOp.ret # Nil

\* C33: Validate() reports the first failure in the order source port,
\* destination port, version, ordering: an invalid port gives the invalid-port
\* error whatever the version and the ordering, an empty version with valid
\* ports gives the invalid-version error whatever the ordering, and the
\* invalid-ordering error is returned only with valid ports and a version.
C33_PortsOk ==
    /\ PortIdentifierValidator(opts.SourcePortName) = Nil
    /\ PortIdentifierValidator(opts.DestPortName) = Nil

C33_FirstFailureReported ==
    vres.fn = "Validate" =>
        /\ ~C33_PortsOk => vres.err = ErrInvalidPort
        /\ (C33_PortsOk /\ opts.Version = "") => vres.err = ErrInvalidChannelVersion
        /\ vres.err = ErrInvalidChannelOrdering =>
              (C33_PortsOk /\ opts.Version # "" /\ opts.Order \notin {Ordered, Unordered})

\* Everything is wrong at once and the port error is the one reported.
C33_Witness ==
    /\ vres.fn = "Validate"
    /\ ~C33_PortsOk
    /\ opts.Version = ""
    /\ opts.Order \notin {Ordered, Unordered}
    /\ vres.err = ErrInvalidPort

\* Valid ports, no version, a bad ordering: the version error is reported.
C33_WitnessVersion ==
    /\ vres.fn = "Validate"
    /\ C33_PortsOk
    /\ opts.Version = ""
    /\ opts.Order \notin {Ordered, Unordered}
    /\ vres.err = ErrInvalidChannelVersion

\* C34: AddChainConfiguration copies the generated configuration into the volume
\* by the untar one-off job before it dispatches the add-chain-configuration
\* command.  When the generation of the content, the building of the archive or
\* the one-off job fails, the command is not dispatched and nothing is reported;
\* otherwise exactly one report is made.
C34_Injected(x) ==
    /\ x.createErr = Nil /\ x.copyErr = Nil /\ x.startErr = Nil
    /\ SelectRet(x.w) = Nil

C34_InjectBeforeDispatch ==
    lastOp.op = "AddChainConfiguration" =>
        LET cs         == lastOp.calls
            cfgErr     == lastOp.args[2]
            tarErr     == lastOp.args[3]
            x          == lastOp.args[4]
            dispatched == CallIndex(cs, "job.Run") > 0
            prepared   == cfgErr = Nil /\ tarErr = Nil /\ C34_Injected(x)
        IN  /\ dispatched =>
                /\ CountCalls(cs, "job.Run") = 1
                /\ cs[Len(cs)][1] = "job.Run"
                /\ CallIndex(cs, "CopyToContainer") \in 1 .. Len(cs) - 1
                /\ cs[CallIndex(cs, "CopyToContainer")] = Call("CopyToContainer", Nil)
                /\ CallIndex(cs, "ContainerWait") \in CallIndex(cs, "CopyToContainer") + 1 .. Len(cs) - 1
            /\ ~prepared =>
                /\ ~dispatched
                /\ lastOp.reports = <<>>
                /\ lastOp.ret # Nil
            /\ prepared =>
                /\ dispatched
                /\ Len(lastOp.reports) = 1
                /\ lastOp.reports[1].command =
                      CmdAddChainConfiguration(HomeDir(mgr[lastOp.m]) \o ConfigTar(lastOp.args[1]),
                                               HomeDir(mgr[lastOp.m]))

\* The copy into the one-off container failed: no command, no report.
C34_Witness ==
    /\ lastOp.op = "AddChainConfiguration"
    /\ lastOp.args[4].copyErr # Nil
    /\ lastOp.reports = <<>>
    /\ CallIndex(lastOp.calls, "job.Run") = 0

\* Everything succeeded up to the command, which failed: one report.
C34_WitnessReported ==
    /\ lastOp.op = "AddChainConfiguration"
    /\ C34_Injected(lastOp.args[4])
    /\ Len(lastOp.reports) = 1
    /\ lastOp.ret # Nil

\* C35: an AddKey that fails (the command or the parsing of its output) and a
\* RestoreKey that fails (the command) leave the wallets of the relayer as they
\* were: GetWallet answers for every chain ID what it answered before, a wallet
\* where there was one and none where there was none.  A RestoreKey that
\* succeeds stores the mnemonic of the caller, unchanged, with the parsed address.
C35_FailedKeyKeepsWallets ==
    [][/\ (lastOp'.op \in {"AddKey", "RestoreKey"} /\ lastOp'.ret # Nil) =>
            \A chainID \in ChainIDs :
                GetWalletRun(mgr'[lastOp'.m], chainID) = GetWalletRun(mgr[lastOp'.m], chainID)
       /\ (lastOp'.op = "RestoreKey" /\ lastOp'.ret = Nil) =>
            GetWalletRun(mgr'[lastOp'.m], lastOp'.args[1]) =
                [wallet |-> [Mnemonic |-> lastOp'.args[2], Address |-> lastOp'.args[3]],
                 ok |-> TRUE]]_vars

\* A key operation failed on a chain ID that has a wallet, and one that has none.
C35_Witness ==
    /\ lastOp.op \in {"AddKey", "RestoreKey"}
    /\ lastOp.ret # Nil
    /\ GetWalletRun(mgr[lastOp.m], lastOp.args[1]).ok
    /\ \E chainID \in ChainIDs : ~GetWalletRun(mgr[lastOp.m], chainID).ok

\* An AddKey whose output could not be parsed.
C35_WitnessParse ==
    /\ lastOp.op = "AddKey"
    /\ lastOp.res.Err = Nil
    /\ lastOp.ret # Nil

\* A RestoreKey replaced the wallet of a chain ID.
C35_WitnessRestored ==
    /\ lastOp.op = "RestoreKey"
    /\ lastOp.ret = Nil
    /\ mgr[lastOp.m].wallets[lastOp.args[1]].Mnemonic = lastOp.args[2]

\* C36 (as claimed): no long-running container is orphaned.  Every container a
\* StartRelayer created is the one its manager holds or has been removed; two
\* StartRelayer calls with no StopRelayer between them leave no container that
\* the manager no longer holds.
C36_NoOrphanedContainer ==
    \A i \in 1 .. Len(containers) :
        (containers[i].creator \in DOMAIN mgr /\ containers[i].cmd[1] = "StartRelayer") =>
            \/ containers[i].status = "removed"
            \/ mgr[containers[i].creator].containerID = i

\* The orphan: a second StartRelayer succeeded while the container of the first
\* runs, and the manager holds the second only.
C36_Orphaned ==
    /\ lastOp.op = "StartRelayer"
    /\ lastOp.ret = Nil
    /\ \E i \in 1 .. Len(containers) :
          /\ containers[i].creator = lastOp.m
          /\ containers[i].status = "running"
          /\ mgr[lastOp.m].containerID # i

\* The one-off container of an AddChainConfiguration ran to its end with the exit
\* status 0, nothing having failed on the way.
C37_Completed(x) ==
    /\ x.createErr = Nil /\ x.copyErr = Nil /\ x.startErr = Nil
    /\ x.w.pick = "res" /\ x.w.res = "exited" /\ x.w.StatusCode = 0

\* untarIntoNodeHome was called and returned nil: the command was dispatched.
C37_ReturnedNil == lastOp.op = "AddChainConfiguration" /\ CallIndex(lastOp.calls, "job.Run") > 0

\* C37 (as claimed): runOneOff returns an error whenever its container did not
\* complete successfully: on an error of create, copy, start or wait, on
\* cancellation, and when the container ends with a non-zero exit status.
C37_UnsuccessfulIsError ==
    (lastOp.op = "AddChainConfiguration" /\ lastOp.args[2] = Nil /\ lastOp.args[3] = Nil
        /\ ~C37_Completed(lastOp.args[4])) =>
        /\ ~C37_ReturnedNil
        /\ lastOp.ret # Nil

\* What holds: every failure but the exit status makes runOneOff return an error.
C37_FailuresButExitStatus ==
    (lastOp.op = "AddChainConfiguration" /\ lastOp.args[2] = Nil /\ lastOp.args[3] = Nil) =>
        LET x == lastOp.args[4] IN
          \/ C37_Completed(x)
          \/ x.w.pick = "res" /\ x.w.res = "exited" /\ x.w.StatusCode # 0 /\ x.createErr = Nil
                /\ x.copyErr = Nil /\ x.startErr = Nil
          \/ ~C37_ReturnedNil /\ lastOp.ret # Nil

\* The chown of the one-off container exited with status 1 and the call went on
\* to the command as if the job had succeeded.
C37_NonZeroExitReturnsNil ==
    /\ lastOp.op = "AddChainConfiguration"
    /\ lastOp.args[4].w.pick = "res"
    /\ lastOp.args[4].w.StatusCode = 1
    /\ C37_ReturnedNil
    /\ lastOp.ret = Nil

\* The addresses C38 describes: of the nodes of tn from position i on that are
\* not node, in list order, up to the first whose id cannot be read.
RECURSIVE C38_Others(_, _, _)
C38_Others(tn, node, i) ==
    CASE i > Len(tn) -> <<>>
      [] tn[i].ptr = node -> C38_Others(tn, node, i + 1)
      [] tn[i].keyErr # Nil -> <<>>
      [] OTHER -> <<<<"id", ToString(tn[i].ptr), "@", "host", "node", ToString(tn[i].Index),
                      tn[i].ChainID, tn[i].TestName, ":26656">>>>
                    \o C38_Others(tn, node, i + 1)

\* The entries of a joined string: the pieces between its commas.
RECURSIVE C38_Entries(_)
C38_Entries(s) ==
    IF \E i \in 1 .. Len(s) : s[i] = ","
    THEN LET c == CHOOSE i \in 1 .. Len(s) : s[i] = "," /\ \A j \in 1 .. i - 1 : s[j] # ","
         IN  <<SubSeq(s, 1, c - 1)>> \o C38_Entries(SubSeq(s, c + 1, Len(s)))
    ELSE <<s>>

C38_InList == lastOp.op = "PeerString" /\ \E i \in 1 .. Len(nodes) : nodes[i].ptr = lastOp.m

\* C38 (as claimed): for a node of the list PeerString returns the addresses
\* "id@hostname:26656" of exactly the other nodes whose id could be read, in list
\* order and joined by commas, with no entry for the node itself and no empty
\* entry; reading stops at the first node whose id cannot be read.
C38_PeersOfTheOthers ==
    C38_InList =>
        /\ lastOp.ret = Join(C38_Others(nodes, lastOp.m, 1), ",")
        /\ lastOp.ret # <<>> =>
              \A i \in 1 .. Len(C38_Entries(lastOp.ret)) : C38_Entries(lastOp.ret)[i] # <<>>

\* What holds: the string has one entry for every node of the list, the address
\* of a node that was read and the empty string for the node itself and for
\* every node from the first unreadable one on; no id is read after that one.
C38_OneEntryPerNode ==
    C38_InList =>
        LET entries == C38_Entries(lastOp.ret)
            Ended(i) == \E j \in 1 .. i : nodes[j].ptr # lastOp.m /\ nodes[j].keyErr # Nil
        IN  /\ Len(entries) = Len(nodes)
            /\ \A i \in 1 .. Len(nodes) :
                  entries[i] = IF nodes[i].ptr = lastOp.m \/ Ended(i) THEN <<>>
                               ELSE C38_Others(nodes, 0, i)[1]
            /\ \A i \in 1 .. Len(lastOp.calls) - 1 : lastOp.calls[i][2] = Nil
            /\ SelectSeq(entries, LAMBDA e : e # <<>>) = C38_Others(nodes, lastOp.m, 1)

\* Two readable nodes, the peers of the first: the string starts with a comma.
C38_EmptyEntry ==
    /\ C38_InList
    /\ Len(nodes) = 2
    /\ nodes[1].ptr = lastOp.m
    /\ nodes[2].keyErr = Nil
    /\ lastOp.ret[1] = ","
    /\ Len(lastOp.ret) > 1

\* The two parts of C39.  The volume name of a manager is assigned once, by
\* its construction: Exec, AddKey, StartRelayer, StopRelayer and AddChainConfiguration leave it as
\* it is (first formula, of every step).  Every container of the manager that
\* the runtime holds, the relayer's and the one-off ones, and every job of Exec
\* binds that volume, which is the one volume the manager made, at the home
\* directory, so that a container started after a stop is given the volume the
\* one before had (second).
C39_VolumeNameAssignedOnce ==
    [][\A m \in DOMAIN mgr :
          /\ lastOp'.op # "NewDockerRelayer" => mgr'[m].volumeName = mgr[m].volumeName
          /\ mgr[m].state = "ready" =>
                /\ mgr'[m].volumeName = mgr[m].volumeName
                /\ mgr'[m].c = mgr[m].c
                /\ VolumesOf(m) = {mgr[m].volumeName}
                /\ \A i \in VolumesOf(m) : volumes'[i] = volumes[i]]_vars

C39_EveryContainerBindsTheVolume ==
    /\ \A i \in 1 .. Len(containers) :
          (containers[i].creator \in DOMAIN mgr /\ containers[i].status # "removed") =>
              LET r == mgr[containers[i].creator] IN
                /\ r.volumeName # NoVolume
                /\ containers[i].binds = <<r.volumeName, <<"/var/relayer", r.c>>>>
    /\ \A i, j \in 1 .. Len(containers) :
          (containers[i].creator = containers[j].creator /\ containers[i].status # "removed"
              /\ containers[j].status # "removed") => containers[i].binds = containers[j].binds
    /\ lastOp.op = "Exec" =>
          lastOp.args[2] = <<mgr[lastOp.m].volumeName, <<"/var/relayer", mgr[lastOp.m].c>>>>

\* C39: the volume name of a manager is assigned once, during construction, and
\* no later operation changes it; every container and job of the manager binds
\* that volume at the home directory of the manager.
C39_OneVolumeForEveryContainer ==
    C39_VolumeNameAssignedOnce /\ []C39_EveryContainerBindsTheVolume

\* A container was started after the one before it was removed, the relayer
\* holding a key.
C39_Witness ==
    /\ lastOp.op = "StartRelayer"
    /\ lastOp.ret = Nil
    /\ Len(containers) = 2
    /\ containers[1].status = "removed"
    /\ containers[1].creator = lastOp.m
    /\ containers[2].status = "running"
    /\ HasWallet(mgr[lastOp.m].wallets, "c1")
    /\ containers[2].binds = <<mgr[lastOp.m].volumeName, HomeDir(mgr[lastOp.m])>>

\* A one-off container of AddChainConfiguration beside the relayer's container.
C39_WitnessOneOff ==
    /\ lastOp.op = "AddChainConfiguration"
    /\ Len(containers) = 2
    /\ IsUntarContainer(containers[2])
    /\ containers[1].status = "running"
    /\ containers[1].binds = containers[2].binds

\* The words "already exists, refusing to overwrite it" stand in stderr.
C40_SaysAlreadyExists(stderr) ==
    \E i \in 1 .. Len(stderr) - 5 :
        /\ stderr[i] = "already" /\ stderr[i + 1] = "exists," /\ stderr[i + 2] = "refusing"
        /\ stderr[i + 3] = "to" /\ stderr[i + 4] = "overwrite" /\ stderr[i + 5] = "it"

C40_AddrNewRan == Len(lastOp.calls) = 2 /\ lastOp.calls[2][1][Len(lastOp.calls[2][1]) - 1] = "new"

\* C40: CreateKey tolerates a wallet that exists.  When the generation of the
\* wallet fails with "already exists, refusing to overwrite it" in its stderr,
\* CreateKey runs the address command all the same and returns its result; when
\* the generation fails otherwise, CreateKey returns that error and the address
\* command is not run.
C40_ExistingWalletTolerated ==
    lastOp.op = "CreateKey" =>
        LET keyName == lastOp.args[1]
            gen     == lastOp.args[2]
            addr    == lastOp.args[3]
        IN  /\ lastOp.calls[1][1][Len(lastOp.calls[1][1])] = "generate"
            /\ (gen.err # Nil /\ C40_SaysAlreadyExists(gen.stderr)) =>
                  /\ C40_AddrNewRan
                  /\ lastOp.calls[2][1][Len(lastOp.calls[2][1])] = keyName
                  /\ lastOp.ret = addr.err
            /\ (gen.err # Nil /\ ~C40_SaysAlreadyExists(gen.stderr)) =>
                  /\ Len(lastOp.calls) = 1
                  /\ lastOp.ret = gen.err
            /\ gen.err = Nil => (C40_AddrNewRan /\ lastOp.ret = addr.err)

\* The wallet existed and the address command succeeded: CreateKey returns nil.
C40_Witness ==
    /\ lastOp.op = "CreateKey"
    /\ lastOp.args[2].err # Nil
    /\ C40_SaysAlreadyExists(lastOp.args[2].stderr)
    /\ C40_AddrNewRan
    /\ lastOp.ret = Nil

\* The generation failed with a message that only begins like the tolerated one.
C40_WitnessOtherFailure ==
    /\ lastOp.op = "CreateKey"
    /\ lastOp.args[2].stderr = <<"Error:", "wallet", "file", "already", "exists">>
    /\ lastOp.args[2].err # Nil
    /\ Len(lastOp.calls) = 1
    /\ lastOp.ret = lastOp.args[2].err

====
